---- MODULE Spec2Model ----
(***************************************************************************)
(* A model of the plan / execute / replan engine of agentic_ai:            *)
(*   Executor  (src/agentic_ai/executor.py)  dependency ordering, gating,  *)
(*             bounded retry, context extraction, summary                  *)
(*   Planner.adjust_plan (src/agentic_ai/planner.py)  replanning           *)
(*   AgenticAI.execute (src/agentic_ai/agent.py)  the orchestration loop   *)
(*                                                                         *)
(* Three specifications share the variables:                               *)
(*   SpecOrder  applies Executor._resolve_dependencies to a plan           *)
(*   SpecExec   one Executor.execute_plan pass, one action per attempt     *)
(*   Spec       one AgenticAI.execute run driving the same executor        *)
(***************************************************************************)
EXTENDS Integers, Sequences, FiniteSets, TLC

VARIABLES
    pc,                 \* position of the control flow
    steps,              \* the plan being executed: a list of PlanStep objects
    max_retries,        \* execute_plan's max_retries argument
    execution_order,    \* execute_plan's execution_order
    pos,                \* index of the for loop over execution_order (1-based)
    retry_count,        \* execute_plan's retry_count
    context,            \* execute_plan's running context
    results,            \* execute_plan's results, step_id -> result
    execution_history,  \* Executor.execution_history
    attempts,           \* ghost: execute_step calls per step_id in this pass
    processed,          \* ghost: loop iterations per step_id in this pass
    summary,            \* what execute_plan returned last: <<>> or <<summary>>
    planner_output,     \* what Planner.plan returns for the task of this run
    max_iterations,     \* AgenticAI.max_iterations
    iteration,          \* AgenticAI.execute's iteration
    execution_context,  \* AgenticAI.execution_context
    final_result,       \* AgenticAI.execute's final_result: <<>> is None
    ret,                \* AgenticAI.execute's return value: <<>> before it returns
    adjusted,           \* ghost: the last adjust_plan call of the run, <<>> if none
    plan_calls,         \* ghost: calls of Planner.plan in this run
    exec_calls,         \* ghost: calls of Executor.execute_plan in this run
    adjust_calls,       \* ghost: calls of Planner.adjust_plan in this run
    parameters,         \* _resolve_parameters' parameters argument
    resolve_context,    \* _resolve_parameters' context argument
    resolved,           \* what _resolve_parameters returned: <<>> before the call
    tool_registry,      \* ToolRegistry.tools: the tools in insertion order
    runs,               \* ghost: calls of AgenticAI.execute on this agent
    dispatched,         \* the last execute_tool call and its result: <<>> if none
    listing,            \* what list_tools returned last: <<>> before a call
    planned             \* the last call of Planner.plan by a caller of the
                        \* planner and how it ended: <<>> before a call

vars == <<pc, steps, max_retries, execution_order, pos, retry_count, context,
          results, execution_history, attempts, processed, summary,
          planner_output, max_iterations, iteration, execution_context,
          final_result, ret, adjusted, plan_calls, exec_calls, adjust_calls,
          parameters, resolve_context, resolved, tool_registry, runs,
          dispatched, listing, planned>>

execVars == <<steps, max_retries, execution_order, pos, retry_count, context,
              results, execution_history, attempts, processed, summary>>

agentVars == <<planner_output, max_iterations, iteration, execution_context,
               final_result, ret, adjusted, plan_calls, exec_calls, adjust_calls>>

resolveVars == <<parameters, resolve_context, resolved>>

sessionVars == <<tool_registry, runs, dispatched, listing>>

----------------------------------------------------------------------------
(* Bounds of the model *)

\* SpecOrder: plans of at most OrderMaxSteps steps with at most OrderMaxEdges
\* dependency entries in all
OrderMaxSteps == 3
OrderMaxEdges == 3
\* SpecExec: plans of at most ExecMaxSteps steps with at most ExecMaxEdges
\* dependency entries in all, max_retries in 0..MaxRetriesBound
ExecMaxSteps == 2
ExecMaxEdges == 2
MaxRetriesBound == 1
\* Spec: planner outputs of at most AgentMaxSteps steps, max_iterations in
\* 0..MaxIterBound (and the default, for one-step plans); a run of more than
\* one iteration has a planner output shorter than AgentMaxSteps
AgentMaxSteps == 2
AgentMaxEdges == 1
MaxIterBound == 1
\* SpecChain: linear plans of at most ChainMaxSteps steps
ChainMaxSteps == 3
\* SpecParams: str parameter values of at most ParamMaxPieces pieces
ParamMaxPieces == 4

(* Program constants *)
DefaultMaxRetries == 2
DefaultMaxIterations == 10

----------------------------------------------------------------------------
(* Values *)

EmptyMap == [k \in {} |-> ""]

\* Optional values: <<>> is None, <<v>> is v
None == <<>>
Some(v) == <<v>>

\* str(step_id) and f"step_{step_id}_result" for the ids the model uses
IdStr(i) == <<"0", "1", "2", "3", "4", "5", "6", "7">>[i + 1]
StepResultKey(i) ==
    <<"step_0_result", "step_1_result", "step_2_result", "step_3_result",
      "step_4_result", "step_5_result", "step_6_result", "step_7_result">>[i + 1]

\* PlanStep.__init__: a new step is pending and has no result; its parameters
\* are written into the step where a plan gives some
PlanStep(id, tool, deps) ==
    [step_id |-> id, tool |-> tool, parameters |-> EmptyMap,
     dependencies |-> deps, status |-> "pending", result |-> None]

StepIds(plan) == {plan[i].step_id : i \in 1..Len(plan)}
IdList(plan) == [i \in 1..Len(plan) |-> plan[i].step_id]

\* next(s for s in steps if s.step_id == step_id): the first step with the id
StepIndex(plan, id) ==
    CHOOSE i \in 1..Len(plan) :
        /\ plan[i].step_id = id
        /\ \A j \in 1..(i - 1) : plan[j].step_id # id

SeqContains(s, x) == \E k \in 1..Len(s) : s[k] = x

----------------------------------------------------------------------------
(* Executor._resolve_dependencies *)

\* a variant that counts every id of the plan a dependency list names once
InDegree_Distinct(plan) ==
    [id \in StepIds(plan) |->
        LET deps == plan[StepIndex(plan, id)].dependencies
        IN  Cardinality({dep \in StepIds(plan) : \E k \in 1..Len(deps) : deps[k] = dep})]

\* lines 147-151: one increment per entry of the dependency list that names
\* an id of the plan
InDegree(plan) ==
    [id \in StepIds(plan) |->
        LET deps == plan[StepIndex(plan, id)].dependencies
        IN  Cardinality({k \in 1..Len(deps) : deps[k] \in StepIds(plan)})]

\* lines 161-165 for the steps at positions i.. of the graph: one decrement
\* for each step whose dependency list contains step_id
RECURSIVE UpdateInDegrees(_, _, _, _, _)
UpdateInDegrees(plan, in_degree, queue, step_id, i) ==
    IF i > Len(plan) THEN [in_degree |-> in_degree, queue |-> queue]
    ELSE LET other_id == plan[i].step_id
             hit == SeqContains(plan[i].dependencies, step_id)
             deg == IF hit THEN in_degree[other_id] - 1 ELSE in_degree[other_id]
             q == IF hit /\ deg = 0 THEN Append(queue, other_id) ELSE queue
         IN  UpdateInDegrees(plan, [in_degree EXCEPT ![other_id] = deg], q,
                             step_id, i + 1)

\* lines 156-165: the while loop over the queue
RECURSIVE KahnLoop(_, _, _, _)
KahnLoop(plan, in_degree, queue, order) ==
    IF queue = <<>> THEN order
    ELSE LET step_id == Head(queue)
             upd == UpdateInDegrees(plan, in_degree, Tail(queue), step_id, 1)
         IN  KahnLoop(plan, upd.in_degree, upd.queue, Append(order, step_id))

\* line 153
InitialQueue(plan) ==
    LET in_degree == InDegree(plan)
    IN  SelectSeq(IdList(plan), LAMBDA id : in_degree[id] = 0)

\* a variant that drops the steps the queue never held
Remaining_Dropped(plan, order) == <<>>

\* lines 167-169
Remaining(plan, order) ==
    SelectSeq(IdList(plan), LAMBDA id : ~SeqContains(order, id))

ResolveDependencies(plan) ==
    LET order == KahnLoop(plan, InDegree(plan), InitialQueue(plan), <<>>)
    IN  order \o Remaining(plan, order)

----------------------------------------------------------------------------
(* Tool results *)

\* the payload fields of a tool's successful result (tools.py), by tool
Payload(tool) ==
    CASE tool = "calculate"  -> ("expression" :> "6*7" @@ "result" :> "42")
      [] tool = "api_call"   -> ("response" :> "body" @@ "url" :> "http://x")
      [] tool = "web_search" -> ("query" :> "q" @@ "results" :> "hits")
      [] tool = "file_read"  -> ("content" :> "text" @@ "file_path" :> "in.txt")
      [] tool = "file_write" -> ("file_path" :> "out.txt" @@ "bytes_written" :> "4")
      [] OTHER               -> EmptyMap

\* the payload fields of a tool's failure result: the file tools hand the
\* file_path back
FailureFields(tool) ==
    CASE tool = "file_read"  -> ("file_path" :> "in.txt")
      [] tool = "file_write" -> ("file_path" :> "out.txt")
      [] OTHER               -> EmptyMap

SuccessResult(tool) == [success |-> TRUE, error |-> "", fields |-> Payload(tool)]
FailureResult(tool) ==
    [success |-> FALSE, error |-> "tool failed", fields |-> FailureFields(tool)]

\* a variant in which the fault is not turned into a failure
FaultResult_Success(id) ==
    [success |-> TRUE, error |-> "", fields |-> ("step_id" :> IdStr(id))]

\* execute_step's except branch, lines 68-75
FaultResult(id) ==
    [success |-> FALSE, error |-> "fault", fields |-> ("step_id" :> IdStr(id))]

\* execute_plan, lines 109-112
DependencyError ==
    [success |-> FALSE, error |-> "Dependencies not satisfied", fields |-> EmptyMap]

----------------------------------------------------------------------------
(* ToolRegistry *)

\* a Tool object: its name, its description, and impl, which tells the
\* objects of one name apart (0 is the object made by the registry itself)
Tool(name, impl) ==
    [name |-> name,
     description |-> IF impl = 0 THEN "built in" ELSE "custom",
     impl |-> impl]

\* the position of the key name in the dict, 0 if it is no key
RECURSIVE KeyIndexFrom(_, _, _)
KeyIndexFrom(tools, name, i) ==
    IF i > Len(tools) THEN 0
    ELSE IF tools[i].name = name THEN i ELSE KeyIndexFrom(tools, name, i + 1)

KeyIndex(tools, name) == KeyIndexFrom(tools, name, 1)

\* a variant that adds the tool at the end whatever the dict holds
Register_Append(tools, tool) == Append(tools, tool)

\* register: self.tools[tool.name] = tool; a new key goes to the end of the
\* dict, an old key keeps its place
Register(tools, tool) ==
    IF KeyIndex(tools, tool.name) = 0
    THEN Append(tools, tool)
    ELSE [tools EXCEPT ![KeyIndex(tools, tool.name)] = tool]

\* get_tool: self.tools.get(name); None is <<>>
GetTool(tools, name) ==
    IF KeyIndex(tools, name) = 0 THEN <<>> ELSE <<tools[KeyIndex(tools, name)]>>

\* list_tools
ListTools(tools) ==
    [i \in 1..Len(tools) |->
        [name |-> tools[i].name, description |-> tools[i].description]]

\* list(self.tools.keys())
ToolKeys(tools) == [i \in 1..Len(tools) |-> tools[i].name]

\* repr of a list of strs, from entry i on: 'a', 'b']
RECURSIVE ListReprFrom(_, _)
ListReprFrom(names, i) ==
    IF i > Len(names) THEN "]"
    ELSE "'" \o names[i] \o "'" \o (IF i < Len(names) THEN ", " ELSE "")
             \o ListReprFrom(names, i + 1)

\* execute_tool, lines 344-348: the result for a name that is no key
NotFoundResult(tool_name, tools) ==
    [success |-> FALSE,
     error |-> "Tool '" \o tool_name \o "' not found. Available tools: ["
                   \o ListReprFrom(ToolKeys(tools), 1),
     fields |-> EmptyMap]

\* _register_default_tools
DefaultToolList ==
    <<"file_read", "file_write", "file_list", "api_call", "web_search",
      "calculate", "system_command", "json_parse">>

RECURSIVE RegisterAll(_, _, _)
RegisterAll(tools, names, i) ==
    IF i > Len(names) THEN tools
    ELSE RegisterAll(Register(tools, Tool(names[i], 0)), names, i + 1)

\* ToolRegistry.__init__
NewRegistry == RegisterAll(<<>>, DefaultToolList, 1)

\* the registry of the runs: the default tools, and the tools "raising" and
\* "flaky", registered by the caller
RunRegistry == Register(Register(NewRegistry, Tool("raising", 1)), Tool("flaky", 1))

\* a variant that does not look the name up
ToolOutcomes_NoLookup(tool) == {"ok", "fail"}

\* what a call of execute_tool can do: a name that is no key gives the
\* not-found result; a tool returns a success or a failure result; the tool
\* "raising" is a registered tool whose execute raises, the tool "flaky" one
\* whose execute raises in some calls
ToolOutcomes(tool) ==
    IF GetTool(tool_registry, tool) = <<>> THEN {"unknown"}
    ELSE IF tool = "raising" THEN {"raise"}
    ELSE IF tool = "flaky" THEN {"ok", "fail", "raise"}
    ELSE {"ok", "fail"}

Outcomes == {"ok", "fail", "raise", "unknown"}

\* the result of one execute_step call with the given outcome of the tool
AttemptResult(step, outcome) ==
    CASE outcome = "ok"      -> SuccessResult(step.tool)
      [] outcome = "fail"    -> FailureResult(step.tool)
      [] outcome = "unknown" -> NotFoundResult(step.tool, tool_registry)
      [] OTHER               -> FaultResult(step.step_id)

----------------------------------------------------------------------------
(* Executor helpers *)

\* a variant that replaces the dict by the update
Update_Replace(ctx, m) == m

\* dict.update
Update(ctx, m) ==
    [k \in DOMAIN ctx \cup DOMAIN m |-> IF k \in DOMAIN m THEN m[k] ELSE ctx[k]]

\* a variant that only looks whether the dependency is a step of the plan
DependenciesSatisfied_ExistsOnly(step, all_steps) ==
    \A k \in 1..Len(step.dependencies) : step.dependencies[k] \in StepIds(all_steps)

\* _dependencies_satisfied: every dependency names a step of the plan whose
\* status is completed
DependenciesSatisfied(step, all_steps) ==
    \A k \in 1..Len(step.dependencies) :
        LET dep_id == step.dependencies[k]
        IN  /\ dep_id \in StepIds(all_steps)
            /\ all_steps[StepIndex(all_steps, dep_id)].status = "completed"

\* a variant that keeps the name of the field as the key
WellKnownKey_Same(field) == field

\* _extract_context: result field -> context key, for a successful result
WellKnownKey(field) ==
    CASE field = "content"   -> "content"
      [] field = "file_path" -> "file_path"
      [] field = "response"  -> "api_response"
      [] field = "results"   -> "search_results"
      [] field = "result"    -> "calculation_result"

WellKnownFields == {"content", "file_path", "response", "results", "result"}

ExtractContext(result) ==
    IF result.success
    THEN LET present == WellKnownFields \cap DOMAIN result.fields
         IN  [key \in {WellKnownKey(f) : f \in present} |->
                 result.fields[CHOOSE f \in present : WellKnownKey(f) = key]]
    ELSE EmptyMap

CountStatus(plan, status) == Cardinality({i \in 1..Len(plan) : plan[i].status = status})

\* a variant whose success flag asks for a completed step, not for no failed one
GenerateSummary_AnyCompleted(plan, res) ==
    [success |-> CountStatus(plan, "completed") > 0,
     total_steps |-> Len(plan),
     completed |-> CountStatus(plan, "completed"),
     failed |-> CountStatus(plan, "failed"),
     pending |-> CountStatus(plan, "pending"),
     steps |-> plan,
     results |-> res,
     execution_history |-> "self.execution_history"]

\* _generate_summary; the summary's execution_history entry is the executor's
\* list object itself, whose contents are the variable execution_history
GenerateSummary(plan, res) ==
    [success |-> CountStatus(plan, "failed") = 0,
     total_steps |-> Len(plan),
     completed |-> CountStatus(plan, "completed"),
     failed |-> CountStatus(plan, "failed"),
     pending |-> CountStatus(plan, "pending"),
     steps |-> plan,
     results |-> res,
     execution_history |-> "self.execution_history"]

----------------------------------------------------------------------------
(* Python values and strings *)

\* A Python value a parameter or a context entry can hold: None, a str (its
\* characters), an int, a bool or a dict with str keys
NoneVal == [kind |-> "none", chars |-> <<>>, num |-> 0, map |-> EmptyMap]
StrVal(s) == [kind |-> "str", chars |-> s, num |-> 0, map |-> EmptyMap]
IntVal(n) == [kind |-> "int", chars |-> <<>>, num |-> n, map |-> EmptyMap]
DictVal(m) == [kind |-> "dict", chars |-> <<>>, num |-> 0, map |-> m]
BoolVal(b) ==
    [kind |-> "bool", chars |-> <<>>, num |-> IF b THEN 1 ELSE 0, map |-> EmptyMap]

\* the str made of the characters of s, as a key of a dict
RECURSIVE KeyOf(_)
KeyOf(s) == IF s = <<>> THEN "" ELSE Head(s) \o KeyOf(Tail(s))

\* s[i:], 1-based
From(s, i) == SubSeq(s, i, Len(s))

\* s.startswith(p), s.endswith(p), p in s
StartsWith(s, p) == Len(s) >= Len(p) /\ SubSeq(s, 1, Len(p)) = p
EndsWith(s, p) == Len(s) >= Len(p) /\ SubSeq(s, Len(s) - Len(p) + 1, Len(s)) = p
Contains(s, p) == \E i \in 1..(Len(s) - Len(p) + 1) : SubSeq(s, i, i + Len(p) - 1) = p

\* s.split("."): the pieces between the dots, empty pieces included
RECURSIVE SplitFrom(_, _, _)
SplitFrom(s, i, piece) ==
    IF i > Len(s) THEN <<piece>>
    ELSE IF s[i] = "." THEN <<piece>> \o SplitFrom(s, i + 1, <<>>)
         ELSE SplitFrom(s, i + 1, Append(piece, s[i]))

Split(s) == SplitFrom(s, 1, <<>>)

\* s.strip(): blanks removed at both ends
RECURSIVE LStrip(_)
LStrip(s) == IF s # <<>> /\ Head(s) = " " THEN LStrip(Tail(s)) ELSE s

RECURSIVE RStrip(_)
RStrip(s) ==
    IF s # <<>> /\ s[Len(s)] = " " THEN RStrip(SubSeq(s, 1, Len(s) - 1)) ELSE s

Strip(s) == RStrip(LStrip(s))

\* s.replace(old, new) for a non-empty old: every occurrence, left to right,
\* without overlap
RECURSIVE Replace(_, _, _)
Replace(s, old, new) ==
    IF s = <<>> THEN <<>>
    ELSE IF StartsWith(s, old) THEN new \o Replace(From(s, Len(old) + 1), old, new)
         ELSE <<Head(s)>> \o Replace(Tail(s), old, new)

\* the length of the longest run of characters other than "}" at the head of s
RECURSIVE RunLength(_)
RunLength(s) == IF s = <<>> \/ Head(s) = "}" THEN 0 ELSE 1 + RunLength(Tail(s))

\* does the pattern \{\{([^}]+)\}\} match at the head of s
MatchesHere(s) ==
    /\ StartsWith(s, <<"{", "{">>)
    /\ LET n == RunLength(From(s, 3))
       IN  n >= 1 /\ StartsWith(From(s, 3 + n), <<"}", "}">>)

\* re.findall(r'\{\{([^}]+)\}\}', s): the groups of the matches, leftmost
\* first, each search starting where the match before it ended
RECURSIVE FindAll(_)
FindAll(s) ==
    IF s = <<>> THEN <<>>
    ELSE IF MatchesHere(s)
         THEN LET n == RunLength(From(s, 3))
              IN  <<SubSeq(s, 3, 2 + n)>> \o FindAll(From(s, 5 + n))
         ELSE FindAll(Tail(s))

\* str(n) for an int n >= 0
Digit(d) == <<"0", "1", "2", "3", "4", "5", "6", "7", "8", "9">>[d + 1]

RECURSIVE Digits(_)
Digits(n) == IF n < 10 THEN <<Digit(n)>> ELSE Digits(n \div 10) \o <<Digit(n % 10)>>

\* repr(v) and str(v); the keys of the dicts that are printed are one
\* character long, and a printed dict has at most one entry
RECURSIVE Repr(_)
Repr(v) ==
    CASE v.kind = "none" -> <<"N", "o", "n", "e">>
      [] v.kind = "str"  -> <<"'">> \o v.chars \o <<"'">>
      [] v.kind = "int"  -> Digits(v.num)
      [] v.kind = "bool" -> IF v.num = 1 THEN <<"T", "r", "u", "e">>
                            ELSE <<"F", "a", "l", "s", "e">>
      [] v.kind = "dict" ->
            IF DOMAIN v.map = {} THEN <<"{", "}">>
            ELSE LET k == CHOOSE key \in DOMAIN v.map : TRUE
                 IN  <<"{", "'", k, "'", ":", " ">> \o Repr(v.map[k]) \o <<"}">>

ToStr(v) == IF v.kind = "str" THEN v.chars ELSE Repr(v)

----------------------------------------------------------------------------
(* Executor._resolve_parameters *)

\* dict.get(key)
DictGet(m, key) == IF key \in DOMAIN m THEN m[key] ELSE NoneVal

\* lines 207-211: the for loop over parts, from part i on
RECURSIVE Walk(_, _, _)
Walk(value, parts, i) ==
    IF i > Len(parts) THEN value
    ELSE IF value.kind = "dict"
         THEN Walk(DictGet(value.map, KeyOf(parts[i])), parts, i + 1)
         ELSE NoneVal

\* a variant that looks the whole path up as one key
GetContextValue_OneKey(path, ctx) == DictGet(ctx, KeyOf(path))

\* _get_context_value
GetContextValue(path, ctx) == Walk(DictVal(ctx), Split(path), 1)

\* lines 221-224: the for loop over matches, from match i on
RECURSIVE ResolveMatches(_, _, _, _)
ResolveMatches(result, matches, i, ctx) ==
    IF i > Len(matches) THEN result
    ELSE LET value == GetContextValue(Strip(matches[i]), ctx)
             marker == <<"{", "{">> \o matches[i] \o <<"}", "}">>
         IN  ResolveMatches(IF value.kind # "none"
                            THEN Replace(result, marker, ToStr(value))
                            ELSE result,
                            matches, i + 1, ctx)

\* _resolve_template
ResolveTemplate(template, ctx) == ResolveMatches(template, FindAll(template), 1, ctx)

\* a variant that takes every str that starts with "${" for a reference
ResolveValue_StartOnly(value, ctx) ==
    IF value.kind = "str" /\ StartsWith(value.chars, <<"$", "{">>)
    THEN GetContextValue(SubSeq(value.chars, 3, Len(value.chars) - 1), ctx)
    ELSE IF value.kind = "str" /\ Contains(value.chars, <<"{", "{">>)
         THEN StrVal(ResolveTemplate(value.chars, ctx))
         ELSE value

\* lines 190-198: the three branches, for one value; value[2:-1] is the path
ResolveValue(value, ctx) ==
    IF /\ value.kind = "str"
       /\ StartsWith(value.chars, <<"$", "{">>)
       /\ EndsWith(value.chars, <<"}">>)
    THEN GetContextValue(SubSeq(value.chars, 3, Len(value.chars) - 1), ctx)
    ELSE IF value.kind = "str" /\ Contains(value.chars, <<"{", "{">>)
         THEN StrVal(ResolveTemplate(value.chars, ctx))
         ELSE value

\* _resolve_parameters
ResolveParameters(params, ctx) ==
    [key \in DOMAIN params |-> ResolveValue(params[key], ctx)]

----------------------------------------------------------------------------
(* The running context of a pass as Python values *)

\* the characters of the strs among the payloads and errors of the results
CharsOf(s) ==
    CASE s = "6*7"         -> <<"6", "*", "7">>
      [] s = "body"        -> <<"b", "o", "d", "y">>
      [] s = "http://x"    -> <<"h", "t", "t", "p", ":", "/", "/", "x">>
      [] s = "q"           -> <<"q">>
      [] s = "hits"        -> <<"h", "i", "t", "s">>
      [] s = "text"        -> <<"t", "e", "x", "t">>
      [] s = "in.txt"      -> <<"i", "n", ".", "t", "x", "t">>
      [] s = "out.txt"     -> <<"o", "u", "t", ".", "t", "x", "t">>
      [] s = "tool failed" -> <<"t", "o", "o", "l", " ", "f", "a", "i", "l", "e", "d">>
      [] s = "fault"       -> <<"f", "a", "u", "l", "t">>
      [] s = "Dependencies not satisfied" ->
            <<"D", "e", "p", "e", "n", "d", "e", "n", "c", "i", "e", "s", " ",
              "n", "o", "t", " ", "s", "a", "t", "i", "s", "f", "i", "e", "d">>

\* a payload as a Python value: the calculate result 42, bytes_written and
\* the step ids are ints, the other payloads are strs
ValueOf(payload) ==
    CASE payload = "42" -> IntVal(42)
      [] \E i \in 0..7 : payload = IdStr(i) ->
            IntVal(CHOOSE i \in 0..7 : payload = IdStr(i))
      [] OTHER -> StrVal(CharsOf(payload))

\* the dict a result is: success, the error of a failure, the payload fields
ResultDict(result) ==
    DictVal([k \in DOMAIN result.fields \cup {"success"}
                  \cup (IF result.error # "" THEN {"error"} ELSE {}) |->
                CASE k = "success" -> BoolVal(result.success)
                  [] k = "error"   -> StrVal(CharsOf(result.error))
                  [] OTHER         -> ValueOf(result.fields[k])])

\* the running context: a result under each step_<id>_result key, a payload
\* under every other key
ContextView(ctx) ==
    [k \in DOMAIN ctx |->
        IF k \in {StepResultKey(i) : i \in 0..7}
        THEN ResultDict(ctx[k]) ELSE ValueOf(ctx[k])]

----------------------------------------------------------------------------
(* Plans given to the executor *)

\* dependency lists: the lists over ids of at most n entries, in ascending
\* order (the code reads a dependency list only through membership tests and
\* counts of entries, so the order of the entries has no effect)
RECURSIVE SortedLists(_, _)
SortedLists(ids, n) ==
    IF n = 0 THEN {<<>>}
    ELSE LET shorter == SortedLists(ids, n - 1)
         IN  shorter \cup
             {Append(s, x) : s \in {t \in shorter : Len(t) = n - 1}, x \in ids}

IsSorted(s) == \A k \in 1..(Len(s) - 1) : s[k] <= s[k + 1]

DepLists(ids, n) == {s \in SortedLists(ids, n) : IsSorted(s)}

\* the ways to give k steps dependency lists over ids with at most budget
\* entries together
RECURSIVE DepAssignments(_, _, _)
DepAssignments(ids, k, budget) ==
    IF k = 0 THEN {<<>>}
    ELSE UNION {{Append(d, l) : d \in DepAssignments(ids, k - 1, budget - Len(l))} :
                   l \in DepLists(ids, budget)}

\* the plan of n steps whose ids are idOf[1..n], whose tools are tl[1..n] and
\* whose dependency lists are dl[1..n]
MakePlan(n, idOf, tl, dl) == [i \in 1..n |-> PlanStep(idOf[i], tl[i], dl[i])]

\* the ids 0..n-1 listed in ascending and in descending order (the executor
\* only compares ids for equality, so what matters is where a step is listed
\* relative to the steps its dependency list names)
Ascending(n) == [i \in 1..n |-> i - 1]
Descending(n) == [i \in 1..n |-> n - i]

----------------------------------------------------------------------------
(* SpecOrder: _resolve_dependencies on every plan within the bounds *)

\* plan is a plan of at most OrderMaxSteps steps, all of one tool, whose
\* dependency lists name ids in 0..n (n is in no plan: a dangling reference)
\* and have at most OrderMaxEdges entries together
IsOrderPlan(plan) ==
    \E n \in 1..OrderMaxSteps :
        \E dl \in DepAssignments(0..n, n, OrderMaxEdges) :
            \E idOf \in {Ascending(n), Descending(n)} :
                plan = MakePlan(n, idOf, [i \in 1..n |-> "calculate"], dl)

\* ToolRegistry._register_default_tools
DefaultTools ==
    {"file_read", "file_write", "file_list", "api_call", "web_search",
     "calculate", "system_command", "json_parse"}

\* the names of the registry of the runs
RegisteredTools == DefaultTools \cup {"raising", "flaky"}

\* no call of the registry is followed on its own
NoRegistryCall ==
    /\ dispatched = <<>>
    /\ listing = <<>>

\* no call of Planner.plan is followed on its own
NoPlannerCall == planned = <<>>

\* no call of _resolve_parameters is followed on its own
NoResolveCall ==
    /\ parameters = EmptyMap
    /\ resolve_context = EmptyMap
    /\ resolved = None

IdleAgent ==
    /\ tool_registry = RunRegistry
    /\ NoRegistryCall
    /\ NoPlannerCall
    /\ runs = 0
    /\ planner_output = <<>>
    /\ max_iterations = 0
    /\ iteration = 0
    /\ execution_context = EmptyMap
    /\ final_result = None
    /\ ret = None
    /\ adjusted = None
    /\ plan_calls = 0
    /\ exec_calls = 0
    /\ adjust_calls = 0

\* Executor.__init__, and the locals of execute_plan before the call
FreshExecutor ==
    /\ execution_order = <<>>
    /\ pos = 0
    /\ retry_count = 0
    /\ context = EmptyMap
    /\ results = EmptyMap
    /\ execution_history = <<>>
    /\ attempts = EmptyMap
    /\ processed = EmptyMap
    /\ summary = None

InitOrder ==
    /\ pc = "exec_start"
    /\ IsOrderPlan(steps)
    /\ max_retries = DefaultMaxRetries
    /\ FreshExecutor
    /\ IdleAgent
    /\ NoResolveCall

----------------------------------------------------------------------------
(* Executor.execute_plan *)

CurrentId == execution_order[pos]
CurrentIndex == StepIndex(steps, CurrentId)
CurrentStep == steps[CurrentIndex]

\* a variant in which the pass starts with the context of the agent
StartPass_AgentContext ==
    /\ pc = "exec_start"
    /\ execution_order' = ResolveDependencies(steps)
    /\ context' = execution_context
    /\ results' = EmptyMap
    /\ pos' = 1
    /\ retry_count' = 0
    /\ attempts' = [id \in StepIds(steps) |-> 0]
    /\ processed' = [id \in StepIds(steps) |-> 0]
    /\ exec_calls' = exec_calls + 1
    /\ pc' = "loop"
    /\ UNCHANGED <<steps, max_retries, execution_history, summary>>
    /\ UNCHANGED <<resolveVars, sessionVars, planned>>
    /\ UNCHANGED <<planner_output, max_iterations, iteration, execution_context,
                   final_result, ret, adjusted, plan_calls, adjust_calls>>

\* lines 99-101: the execution order, an empty context, empty results
StartPass ==
    /\ pc = "exec_start"
    /\ execution_order' = ResolveDependencies(steps)
    /\ context' = EmptyMap
    /\ results' = EmptyMap
    /\ pos' = 1
    /\ retry_count' = 0
    /\ attempts' = [id \in StepIds(steps) |-> 0]
    /\ processed' = [id \in StepIds(steps) |-> 0]
    /\ exec_calls' = exec_calls + 1
    /\ pc' = "loop"
    /\ UNCHANGED <<steps, max_retries, execution_history, summary>>
    /\ UNCHANGED <<resolveVars, sessionVars, planned>>
    /\ UNCHANGED <<planner_output, max_iterations, iteration, execution_context,
                   final_result, ret, adjusted, plan_calls, adjust_calls>>

\* a variant that leaves the status and the results of a skipped step alone
SkipStep_Pending ==
    /\ pc = "loop"
    /\ pos <= Len(execution_order)
    /\ ~DependenciesSatisfied(steps[StepIndex(steps, execution_order[pos])], steps)
    /\ processed' = [processed EXCEPT ![execution_order[pos]] = @ + 1]
    /\ pos' = pos + 1
    /\ UNCHANGED <<pc, steps, max_retries, execution_order, retry_count, context,
                   results, execution_history, attempts, summary>>
    /\ UNCHANGED agentVars
    /\ UNCHANGED <<resolveVars, sessionVars, planned>>

\* lines 103-113: the next step of the order has an unsatisfied dependency
SkipStep ==
    /\ pc = "loop"
    /\ pos <= Len(execution_order)
    /\ ~DependenciesSatisfied(CurrentStep, steps)
    /\ steps' = [steps EXCEPT ![CurrentIndex].status = "failed"]
    /\ results' = Update(results, CurrentId :> DependencyError)
    /\ processed' = [processed EXCEPT ![CurrentId] = @ + 1]
    /\ pos' = pos + 1
    /\ UNCHANGED <<pc, max_retries, execution_order, retry_count, context,
                   execution_history, attempts, summary>>
    /\ UNCHANGED agentVars
    /\ UNCHANGED <<resolveVars, sessionVars, planned>>

\* lines 103-120 and 38-39: the dependencies of the next step are satisfied;
\* retry_count = 0 and the first execute_step call begins
BeginStep ==
    /\ pc = "loop"
    /\ pos <= Len(execution_order)
    /\ DependenciesSatisfied(CurrentStep, steps)
    /\ retry_count' = 0
    /\ steps' = [steps EXCEPT ![CurrentIndex].status = "in_progress"]
    /\ attempts' = [attempts EXCEPT ![CurrentId] = @ + 1]
    /\ processed' = [processed EXCEPT ![CurrentId] = @ + 1]
    /\ pc' = "in_step"
    /\ UNCHANGED <<max_retries, execution_order, pos, context, results,
                   execution_history, summary>>
    /\ UNCHANGED agentVars
    /\ UNCHANGED <<resolveVars, sessionVars, planned>>

\* lines 119-120 and 38-39: the while loop calls execute_step again
RetryStep ==
    /\ pc = "retry"
    /\ steps' = [steps EXCEPT ![CurrentIndex].status = "in_progress"]
    /\ attempts' = [attempts EXCEPT ![CurrentId] = @ + 1]
    /\ pc' = "in_step"
    /\ UNCHANGED <<max_retries, execution_order, pos, retry_count, context,
                   results, execution_history, processed, summary>>
    /\ UNCHANGED agentVars
    /\ UNCHANGED <<resolveVars, sessionVars, planned>>

\* a variant that retries after a successful attempt as well
RetryAgain_AfterSuccess(result) == retry_count + 1 <= max_retries

\* a variant that stops one retry early
RetryAgain_OffByOne(result) == ~result.success /\ retry_count + 1 < max_retries

\* the while loop continues after a failed attempt (line 119)
RetryAgain(result) == ~result.success /\ retry_count + 1 <= max_retries

\* lines 41-86 and 122-135: the execute_step call ends with the given outcome
\* of the tool; then either the while loop goes on to a retry or the step is
\* finished and the for loop moves on
FinishStep(outcome) ==
    LET result == AttemptResult(CurrentStep, outcome)
        status == IF result.success THEN "completed" ELSE "failed"
        record == [step_id |-> CurrentId, tool |-> CurrentStep.tool,
                   parameters |-> IF outcome = "raise"
                                  THEN CurrentStep.parameters
                                  ELSE ResolveParameters(CurrentStep.parameters,
                                                         ContextView(context)),
                   result |-> result, status |-> status]
    IN  /\ pc = "in_step"
        /\ outcome \in ToolOutcomes(CurrentStep.tool)
        /\ steps' = [steps EXCEPT ![CurrentIndex].status = status,
                                  ![CurrentIndex].result = Some(result)]
        /\ execution_history' = Append(execution_history, record)
        /\ retry_count' = IF result.success THEN retry_count ELSE retry_count + 1
        /\ IF RetryAgain(result)
           THEN /\ context' = Update(context, ExtractContext(result))
                /\ pc' = "retry"
                /\ UNCHANGED <<results, pos>>
           ELSE /\ results' = Update(results, CurrentId :> result)
                /\ context' =
                      IF result.success
                      THEN Update(Update(context, ExtractContext(result)),
                                  StepResultKey(CurrentId) :> result)
                      ELSE context
                /\ pos' = pos + 1
                /\ pc' = "loop"
        /\ UNCHANGED <<max_retries, execution_order, attempts, processed, summary>>
        /\ UNCHANGED agentVars
        /\ UNCHANGED <<resolveVars, sessionVars, planned>>

\* lines 137-139: every step of the order was processed; the summary
FinishPass ==
    /\ pc = "loop"
    /\ pos > Len(execution_order)
    /\ summary' = Some(GenerateSummary(steps, results))
    /\ pc' = "pass_done"
    /\ UNCHANGED <<steps, max_retries, execution_order, pos, retry_count, context,
                   results, execution_history, attempts, processed>>
    /\ UNCHANGED agentVars
    /\ UNCHANGED <<resolveVars, sessionVars, planned>>

----------------------------------------------------------------------------
(* SpecOrder: _resolve_dependencies on every plan within the bounds *)

NextOrder == StartPass

SpecOrder == InitOrder /\ [][NextOrder]_vars

----------------------------------------------------------------------------
(* SpecExec: one execute_plan pass *)

ExecTools == {"calculate", "raising"}

\* plan is a plan of at most ExecMaxSteps steps with ids 0..n-1 in plan order,
\* whose dependency lists name ids in 0..n and have at most ExecMaxEdges
\* entries together
IsExecPlan(plan) ==
    \E n \in 1..ExecMaxSteps :
        \E dl \in DepAssignments(0..n, n, ExecMaxEdges) :
            \E tl \in [1..n -> ExecTools] :
                plan = MakePlan(n, Ascending(n), tl, dl)

InitExec ==
    /\ pc = "exec_start"
    /\ IsExecPlan(steps)
    /\ max_retries \in (0..MaxRetriesBound) \cup {DefaultMaxRetries}
    /\ FreshExecutor
    /\ IdleAgent
    /\ NoResolveCall

NextExec ==
    \/ StartPass
    \/ SkipStep
    \/ BeginStep
    \/ RetryStep
    \/ \E outcome \in Outcomes : FinishStep(outcome)
    \/ FinishPass

SpecExec == InitExec /\ [][NextExec]_vars

----------------------------------------------------------------------------
(* SpecChain: one execute_plan pass over a linear plan 0 -> 1 -> ... *)

ChainTools == {"calculate", "file_read", "file_write"}

\* "{{calculation_result}}", "{{file_path}}" and "${step_0_result.result}"
CalculationTemplate ==
    <<"{", "{", "c", "a", "l", "c", "u", "l", "a", "t", "i", "o", "n", "_",
      "r", "e", "s", "u", "l", "t", "}", "}">>
FilePathTemplate ==
    <<"{", "{", "f", "i", "l", "e", "_", "p", "a", "t", "h", "}", "}">>
StepZeroReference ==
    <<"$", "{", "s", "t", "e", "p", "_", "0", "_", "r", "e", "s", "u", "l", "t",
      ".", "r", "e", "s", "u", "l", "t", "}">>

\* the parameters of the last step of a chain
ChainParameters ==
    {EmptyMap,
     "content" :> StrVal(CalculationTemplate),
     "content" :> StrVal(FilePathTemplate),
     "content" :> StrVal(StepZeroReference)}

\* the chain of n steps with the tools tl[1..n]: step i depends on step i - 1,
\* and the last step has the parameters params
ChainPlan(n, tl, params) ==
    [i \in 1..n |->
        [PlanStep(i - 1, tl[i], IF i = 1 THEN <<>> ELSE <<i - 2>>)
            EXCEPT !.parameters = IF i = n THEN params ELSE EmptyMap]]

IsChainPlan(plan) ==
    \E n \in 1..ChainMaxSteps :
        \E tl \in [1..n -> ChainTools] :
            \E params \in ChainParameters :
                plan = ChainPlan(n, tl, params)

InitChain ==
    /\ pc = "exec_start"
    /\ IsChainPlan(steps)
    /\ max_retries \in {0, DefaultMaxRetries}
    /\ FreshExecutor
    /\ IdleAgent
    /\ NoResolveCall

SpecChain == InitChain /\ [][NextExec]_vars

----------------------------------------------------------------------------
(* SpecParams: _resolve_parameters on one parameter mapping and one context *)

\* the pieces the str values of the parameters are made of
Pieces ==
    {<<"$", "{">>, <<"{", "{">>, <<"}", "}">>, <<"}">>, <<"a">>, <<".", "b">>,
     <<" ">>, <<"{", "{", "a", "}", "}">>}

RECURSIVE Flatten(_)
Flatten(ps) == IF ps = <<>> THEN <<>> ELSE Head(ps) \o Flatten(Tail(ps))

\* the parameter values that are no str
NonStrValues == {NoneVal, IntVal(7), DictVal("a" :> IntVal(5))}

\* the contexts of the calls
ParamContexts ==
    {"a" :> DictVal("b" :> IntVal(7)),
     "a" :> IntVal(5),
     "a" :> StrVal(<<"x">>)}

\* the parameter p is a str of at most ParamMaxPieces pieces or no str
InitParams ==
    /\ pc = "resolve"
    /\ \/ \E n \in 0..ParamMaxPieces :
             \E ps \in [1..n -> Pieces] :
                parameters = ("p" :> StrVal(Flatten(ps)) @@ "n" :> IntVal(3))
       \/ \E value \in NonStrValues :
             parameters = ("p" :> value @@ "n" :> IntVal(3))
    /\ resolve_context \in ParamContexts
    /\ resolved = None
    /\ steps = <<>>
    /\ max_retries = DefaultMaxRetries
    /\ FreshExecutor
    /\ IdleAgent

\* a call of _resolve_parameters(parameters, context)
ResolveCall ==
    /\ pc = "resolve"
    /\ resolved' = Some(ResolveParameters(parameters, resolve_context))
    /\ pc' = "resolved"
    /\ UNCHANGED <<parameters, resolve_context, sessionVars, planned>>
    /\ UNCHANGED execVars
    /\ UNCHANGED agentVars

\* a call of _resolve_parameters on what the call before it returned
ResolveAgain ==
    /\ pc = "resolved"
    /\ resolved' = Some(ResolveParameters(resolved[1], resolve_context))
    /\ pc' = "resolved_again"
    /\ UNCHANGED <<parameters, resolve_context, sessionVars, planned>>
    /\ UNCHANGED execVars
    /\ UNCHANGED agentVars

NextParams == ResolveCall \/ ResolveAgain

SpecParams == InitParams /\ [][NextParams]_vars

----------------------------------------------------------------------------
(* Planner.plan: a task is a str, modelled as the sequence of its characters *)

UpperCase ==
    <<"A", "B", "C", "D", "E", "F", "G", "H", "I", "J", "K", "L", "M", "N",
      "O", "P", "Q", "R", "S", "T", "U", "V", "W", "X", "Y", "Z">>
LowerCase ==
    <<"a", "b", "c", "d", "e", "f", "g", "h", "i", "j", "k", "l", "m", "n",
      "o", "p", "q", "r", "s", "t", "u", "v", "w", "x", "y", "z">>

\* str.lower and re.IGNORECASE on one character
LowerChar(c) ==
    IF \E k \in 1..26 : UpperCase[k] = c
    THEN LowerCase[CHOOSE k \in 1..26 : UpperCase[k] = c]
    ELSE c

Lower(s) == [k \in 1..Len(s) |-> LowerChar(s[k])]

\* the character classes \s, \d and \w of the regular expressions
IsSpace(c) == c \in {" ", "\t", "\n", "\r", "\f"}
IsDigit(c) == c \in {"0", "1", "2", "3", "4", "5", "6", "7", "8", "9"}
IsWordChar(c) == IsDigit(c) \/ c = "_" \/ \E k \in 1..26 : LowerCase[k] = LowerChar(c)

\* the literal pat stands in s at position i
MatchAt(s, pat, i) ==
    /\ i >= 1
    /\ i + Len(pat) - 1 <= Len(s)
    /\ \A k \in 1..Len(pat) : s[i + k - 1] = pat[k]

\* all of s[i..j] is white space
AllSpace(s, i, j) == \A k \in i..j : IsSpace(s[k])

\* lines 159-162: _matches_pattern
MatchesPattern(task, patterns) ==
    LET task_lower == Lower(task)
    IN  \E pattern \in patterns : Contains(task_lower, Lower(pattern))

\* the pattern lists of lines 80-138
WritePatterns ==
    {<<"w", "r", "i", "t", "e">>, <<"s", "a", "v", "e">>,
     <<"c", "r", "e", "a", "t", "e", " ", "f", "i", "l", "e">>,
     <<"s", "t", "o", "r", "e">>}

ReadPatterns ==
    {<<"r", "e", "a", "d">>, <<"l", "o", "a", "d">>}

ReadExcluded ==
    {<<"w", "r", "i", "t", "e">>, <<"s", "a", "v", "e">>}

ListPatterns ==
    {<<"l", "i", "s", "t">>, <<"d", "i", "r", "e", "c", "t", "o", "r", "y">>,
     <<"f", "o", "l", "d", "e", "r">>, <<"f", "i", "l", "e", "s">>}

ApiPatterns ==
    {<<"a", "p", "i">>, <<"h", "t", "t", "p">>,
     <<"r", "e", "q", "u", "e", "s", "t">>, <<"c", "a", "l", "l">>,
     <<"f", "e", "t", "c", "h">>, <<"g", "e", "t", " ", "d", "a", "t", "a">>}

SearchPatterns ==
    {<<"s", "e", "a", "r", "c", "h">>, <<"f", "i", "n", "d">>,
     <<"l", "o", "o", "k", "u", "p">>,
     <<"i", "n", "f", "o", "r", "m", "a", "t", "i", "o", "n", " ", "a", "b", "o", "u", "t">>}

CalculatePatterns ==
    {<<"c", "a", "l", "c", "u", "l", "a", "t", "e">>,
     <<"c", "o", "m", "p", "u", "t", "e">>, <<"m", "a", "t", "h">>,
     <<"a", "d", "d">>, <<"m", "u", "l", "t", "i", "p", "l", "y">>}

\* the extensions of line 170
Extensions ==
    {<<"t", "x", "t">>, <<"j", "s", "o", "n">>, <<"c", "s", "v">>,
     <<"p", "y">>, <<"m", "d">>, <<"h", "t", "m", "l">>, <<"x", "m", "l">>}

\* the words of line 336
GenericSearchWords ==
    {<<"d", "a", "t", "a">>,
     <<"i", "n", "f", "o", "r", "m", "a", "t", "i", "o", "n">>,
     <<"g", "e", "t">>}

\* the words of the regular expressions of lines 275, 288-291 and 314, and
\* of line 329
WordThen == <<"t", "h", "e", "n">>
WordAnd == <<"a", "n", "d">>
WordAndThen == <<"a", "n", "d", " ", "t", "h", "e", "n">>
WordAfter == <<"a", "f", "t", "e", "r">>
WordThat == <<"t", "h", "a", "t">>
WordAfterThat == <<"a", "f", "t", "e", "r", " ", "t", "h", "a", "t">>
WordNext == <<"n", "e", "x", "t">>
WordCalculate == <<"c", "a", "l", "c", "u", "l", "a", "t", "e">>
WordFile == <<"f", "i", "l", "e">>

WriteExcluded == {<<"r", "e", "a", "d">>}

\* the last index of the run of white space that starts at i
SpaceRunEnd(s, i) ==
    CHOOSE e \in i..Len(s) :
        AllSpace(s, i, e) /\ (e = Len(s) \/ ~IsSpace(s[e + 1]))

\* the last index of the run of digits that starts at i
DigitRunEnd(s, i) ==
    CHOOSE e \in i..Len(s) :
        /\ \A k \in i..e : IsDigit(s[k])
        /\ e = Len(s) \/ ~IsDigit(s[e + 1])

\* lines 168-169: a quoted path with an extension, for the quote q
QuotedPath(task, q) ==
    \E i \in 1..Len(task) :
        /\ task[i] = q
        /\ \E j \in (i + 4)..Len(task) :
              /\ task[j] = q
              /\ \A k \in (i + 1)..(j - 1) : task[k] # q
              /\ \E d \in (i + 2)..(j - 2) :
                    /\ task[d] = "."
                    /\ \A k \in (d + 1)..(j - 1) : IsWordChar(task[k])

\* line 170: an unquoted path with one of the extensions
UnquotedPath(task) ==
    \E d \in 2..Len(task) :
        /\ task[d] = "."
        /\ ~IsSpace(task[d - 1])
        /\ \E ext \in Extensions : MatchAt(task, ext, d + 1)

\* lines 164-176: _extract_file_path returns a path, not None
HasFilePath(task) ==
    QuotedPath(task, "\"") \/ QuotedPath(task, "'") \/ UnquotedPath(task)

\* line 274: digits, an operator and digits, with white space around the
\* operator or none
HasArithmetic(task) ==
    \E o \in 2..Len(task) :
        /\ task[o] \in {"+", "-", "*", "/"}
        /\ \E i \in 1..(o - 1) :
              IsDigit(task[i]) /\ AllSpace(task, i + 1, o - 1)
        /\ \E j \in (o + 1)..Len(task) :
              IsDigit(task[j]) /\ AllSpace(task, o + 1, j - 1)

\* the character class of line 275
IsExpressionChar(c) ==
    IsDigit(c) \/ IsSpace(c) \/ c \in {"+", "-", "*", "/", ".", "(", ")"}

\* line 275 matches at i: "calculate", white space, a character of the class
CalculateAt(task, i) ==
    /\ MatchAt(task, WordCalculate, i)
    /\ i + 10 <= Len(task)
    /\ IsSpace(task[i + 9])
    /\ IsExpressionChar(task[i + 10])

\* lines 277-280 for line 275: the group of the first match, stripped, is
\* not empty; it is one white space character when no other character of
\* the class follows the white space after "calculate"
HasCalculateArgument(task) ==
    /\ \E i \in 1..Len(task) : CalculateAt(task, i)
    /\ LET i == CHOOSE p \in 1..Len(task) :
                   /\ CalculateAt(task, p)
                   /\ \A r \in 1..(p - 1) : ~CalculateAt(task, r)
           e == SpaceRunEnd(task, i + 9)
       IN  /\ e < Len(task)
           /\ IsExpressionChar(task[e + 1])

\* lines 270-281 and 140: _extract_expression returns a str that is not empty
HasExpression(task) == HasArithmetic(task) \/ HasCalculateArgument(task)

\* the tools of the pattern checks, in the order of lines 80-147
PatternOrder ==
    <<"file_write", "file_read", "file_list", "api_call", "web_search",
      "calculate">>

\* the conditions of lines 80, 93-95, 104, 115, 127 and 138-140
PatternApplies(task, tool) ==
    CASE tool = "file_write" ->
            /\ MatchesPattern(task, WritePatterns)
            /\ ~MatchesPattern(task, WriteExcluded)
      [] tool = "file_read" ->
            /\ MatchesPattern(task, ReadPatterns)
            /\ ~MatchesPattern(task, ReadExcluded)
            /\ HasFilePath(task)
      [] tool = "file_list" -> MatchesPattern(task, ListPatterns)
      [] tool = "api_call" -> MatchesPattern(task, ApiPatterns)
      [] tool = "web_search" -> MatchesPattern(task, SearchPatterns)
      [] tool = "calculate" ->
            /\ MatchesPattern(task, CalculatePatterns)
            /\ HasExpression(task)

\* lines 70-147: the steps of the pattern checks; step_id counts the steps
\* appended, and no step has a dependency (the list of line 88 is built from
\* an empty steps)
PatternSteps(task) ==
    LET tools == SelectSeq(PatternOrder, LAMBDA tool : PatternApplies(task, tool))
    IN  [i \in 1..Len(tools) |-> PlanStep(i - 1, tools[i], <<>>)]

\* line 287: a numbered list
IsNumbered(task) ==
    \E i \in 1..(Len(task) - 1) : IsDigit(task[i]) /\ task[i + 1] = "."

\* lines 288 and 291: the word and white space after it
WordThenSpace(t, word) ==
    \E i \in 1..Len(t) :
        /\ MatchAt(t, word, i)
        /\ i + Len(word) <= Len(t)
        /\ IsSpace(t[i + Len(word)])

\* lines 289 and 290: two words with white space between them
WordSpaceWord(t, first, second) ==
    \E i \in 1..Len(t) :
        /\ MatchAt(t, first, i)
        /\ i + Len(first) <= Len(t)
        /\ IsSpace(t[i + Len(first)])
        /\ MatchAt(t, second, SpaceRunEnd(t, i + Len(first)) + 1)

\* lines 283-293: _is_multi_step_task, the letters compared without case
IsMultiStepTask(task) ==
    LET t == Lower(task)
    IN  \/ IsNumbered(task)
        \/ WordThenSpace(t, WordThen)
        \/ WordSpaceWord(t, WordAnd, WordThen)
        \/ WordSpaceWord(t, WordAfter, WordThat)
        \/ WordThenSpace(t, WordNext)

\* str.strip of a task, whose white space is not only blanks
StripTask(s) ==
    IF AllSpace(s, 1, Len(s)) THEN <<>>
    ELSE LET first == CHOOSE i \in 1..Len(s) :
                         ~IsSpace(s[i]) /\ AllSpace(s, 1, i - 1)
             last == CHOOSE j \in 1..Len(s) :
                         ~IsSpace(s[j]) /\ AllSpace(s, j + 1, Len(s))
         IN  SubSeq(s, first, last)

\* a match of \d+\.\s* starts at p
NumberAt(s, p) ==
    /\ p <= Len(s)
    /\ IsDigit(s[p])
    /\ DigitRunEnd(s, p) < Len(s)
    /\ s[DigitRunEnd(s, p) + 1] = "."

\* the last index of the match of \d+\.\s* that starts at p
NumberEnd(s, p) ==
    LET dot == DigitRunEnd(s, p) + 1
    IN  IF dot < Len(s) /\ IsSpace(s[dot + 1]) THEN SpaceRunEnd(s, dot + 1)
        ELSE dot

\* line 304: re.split(r'\d+\.\s*', task), the parts from index from on
RECURSIVE SplitNumbered(_, _)
SplitNumbered(s, from) ==
    IF \E p \in from..Len(s) : NumberAt(s, p)
    THEN LET p == CHOOSE q \in from..Len(s) :
                     NumberAt(s, q) /\ \A r \in from..(q - 1) : ~NumberAt(s, r)
         IN  <<SubSeq(s, from, p - 1)>> \o SplitNumbered(s, NumberEnd(s, p) + 1)
    ELSE <<SubSeq(s, from, Len(s))>>

\* the length of the match of then|and then|after that|next at p, the
\* alternatives tried in this order; 0 if none matches
KeywordAt(t, p) ==
    IF MatchAt(t, WordThen, p) THEN Len(WordThen)
    ELSE IF MatchAt(t, WordAndThen, p) THEN Len(WordAndThen)
    ELSE IF MatchAt(t, WordAfterThat, p) THEN Len(WordAfterThat)
    ELSE IF MatchAt(t, WordNext, p) THEN Len(WordNext)
    ELSE 0

\* lines 314-315: re.split on the keywords without case, the parts from
\* index from on; t is s in lower case
RECURSIVE SplitKeywords(_, _, _)
SplitKeywords(s, t, from) ==
    IF \E p \in from..Len(s) : KeywordAt(t, p) > 0
    THEN LET p == CHOOSE q \in from..Len(s) :
                     /\ KeywordAt(t, q) > 0
                     /\ \A r \in from..(q - 1) : KeywordAt(t, r) = 0
         IN  <<SubSeq(s, from, p - 1)>>
                 \o SplitKeywords(s, t, p + KeywordAt(t, p))
    ELSE <<SubSeq(s, from, Len(s))>>

\* lines 326-349: _create_generic_plan
CreateGenericPlan(task, start_id) ==
    <<PlanStep(start_id,
               IF Contains(Lower(task), WordFile) THEN "file_list"
               ELSE IF \E word \in GenericSearchWords :
                          Contains(Lower(task), word)
                    THEN "web_search"
                    ELSE "system_command",
               <<>>)>>

\* how a call of plan ends: it returns steps, or an exception leaves it
PlanReturned(plan) == [exception |-> "", steps |-> plan]
RecursionError == [exception |-> "RecursionError", steps |-> <<>>]

\* a variant that leaves the id of the sub-plan's step as it is
Renumber_KeepId(sub_step, step_id, plan) ==
    [sub_step EXCEPT
        !.dependencies =
            SelectSeq(IdList(plan), LAMBDA id : id < step_id)]

\* a variant in which the sub-plan's step also depends on itself
Renumber_SelfDependent(sub_step, step_id, plan) ==
    [sub_step EXCEPT
        !.step_id = step_id,
        !.dependencies = Append(IdList(plan), step_id)]

\* lines 308-309 and 319-320: the sub-plan's step gets the next id and
\* depends on every step before it
Renumber(sub_step, step_id, plan) ==
    [sub_step EXCEPT
        !.step_id = step_id,
        !.dependencies =
            SelectSeq(IdList(plan), LAMBDA id : id < step_id)]

\* lines 307-311 and 318-322: the loop over the steps of one sub-plan
RECURSIVE AppendSubSteps(_, _, _, _)
AppendSubSteps(plan, step_id, sub_steps, i) ==
    IF i > Len(sub_steps) THEN plan
    ELSE AppendSubSteps(Append(plan, Renumber(sub_steps[i], step_id, plan)),
                        step_id + 1, sub_steps, i + 1)

RECURSIVE Plan(_)

\* lines 305-311 and 316-322: the loop over the parts; an exception of a
\* recursive call of plan leaves the loop
RECURSIVE DecomposeParts(_, _, _, _)
DecomposeParts(plan, step_id, parts, i) ==
    IF i > Len(parts) THEN PlanReturned(plan)
    ELSE LET sub == Plan(StripTask(parts[i]))
         IN  IF sub.exception # "" THEN sub
             ELSE DecomposeParts(AppendSubSteps(plan, step_id, sub.steps, 1),
                                 step_id + Len(sub.steps), parts, i + 1)

\* lines 295-324: _decompose_multi_step.  A task without a numbered list in
\* which no keyword of line 314 stands is its own only part: plan is called
\* on the stripped task, which is such a task again, and the recursion ends
\* with Python's RecursionError
DecomposeMultiStep(task, existing_steps, start_id) ==
    IF IsNumbered(task)
    THEN DecomposeParts(existing_steps, start_id,
                        Tail(SplitNumbered(task, 1)), 1)
    ELSE LET parts == SplitKeywords(task, Lower(task), 1)
         IN  IF Len(parts) = 1 THEN RecursionError
             ELSE DecomposeParts(existing_steps, start_id, parts, 1)

\* lines 58-157: Planner.plan
Plan(task) ==
    LET pattern_steps == PatternSteps(task)
        decomposed == IF IsMultiStepTask(task)
                      THEN DecomposeMultiStep(task, pattern_steps,
                                              Len(pattern_steps))
                      ELSE PlanReturned(pattern_steps)
    IN  IF decomposed.exception # "" THEN decomposed
        ELSE IF decomposed.steps = <<>>
        THEN PlanReturned(CreateGenericPlan(task, Len(pattern_steps)))
        ELSE decomposed

----------------------------------------------------------------------------
(* Planner.adjust_plan *)

FailedSteps(plan) == SelectSeq(plan, LAMBDA st : st.status = "failed")

\* a variant that adds an alternative for every failed step, whatever its tool
RECURSIVE AddAlternatives_AnyTool(_, _, _)
AddAlternatives_AnyTool(adjusted_steps, failed_steps, i) ==
    IF i > Len(failed_steps) THEN adjusted_steps
    ELSE AddAlternatives_AnyTool(
             Append(adjusted_steps,
                    [step_id |-> Len(adjusted_steps), tool |-> "web_search",
                     parameters |-> <<>>, dependencies |-> <<>>,
                     status |-> "pending", result |-> <<>>]),
             failed_steps, i + 1)

\* lines 361-371: one alternative web_search step for each failed api_call
\* step, with step_id = len(adjusted_steps) and no dependencies
RECURSIVE AddAlternatives(_, _, _)
AddAlternatives(adjusted_steps, failed_steps, i) ==
    IF i > Len(failed_steps) THEN adjusted_steps
    ELSE IF failed_steps[i].tool = "api_call"
         THEN AddAlternatives(
                  Append(adjusted_steps,
                         PlanStep(Len(adjusted_steps), "web_search", <<>>)),
                  failed_steps, i + 1)
         ELSE AddAlternatives(adjusted_steps, failed_steps, i + 1)

AdjustPlan(plan) ==
    IF FailedSteps(plan) = <<>> THEN plan
    ELSE AddAlternatives(plan, FailedSteps(plan), 1)

\* a variant that appends the alternatives to the list it was given
AdjustPlanEffect_InPlace(plan) ==
    [steps |-> AdjustPlan(plan), returned |-> AdjustPlan(plan)]

\* the list adjust_plan was given, as the call leaves it, and the list it
\* returns: line 360 copies the list before line 371 appends to the copy
AdjustPlanEffect(plan) ==
    [steps |-> plan, returned |-> AdjustPlan(plan)]

----------------------------------------------------------------------------
(* AgenticAI *)

\* dict.get(key) of a result's payload; Python's None is written "None"
FieldGet(fields, key) == IF key \in DOMAIN fields THEN fields[key] ELSE "None"

\* _update_context for one entry of the summary's steps, lines 136-151
UpdateContextStep(ctx, step_data) ==
    IF step_data.status = "completed" /\ step_data.result # None
    THEN LET result == step_data.result[1]
             f == result.fields
             c1 == Update(ctx, StepResultKey(step_data.step_id) :> result)
             c2 == IF "content" \in DOMAIN f
                   THEN Update(c1, "last_file_content" :> f["content"]) ELSE c1
             c3 == IF "file_path" \in DOMAIN f
                   THEN Update(c2, "last_file_path" :> f["file_path"]) ELSE c2
             c4 == IF "api_response" \in DOMAIN f
                   THEN Update(c3, "last_api_response" :> FieldGet(f, "response"))
                   ELSE c3
             c5 == IF "search_results" \in DOMAIN f
                   THEN Update(c4, "last_search_results" :> FieldGet(f, "results"))
                   ELSE c4
         IN  c5
    ELSE ctx

\* _update_context, lines 134-151
RECURSIVE UpdateContextFrom(_, _, _)
UpdateContextFrom(ctx, step_list, i) ==
    IF i > Len(step_list) THEN ctx
    ELSE UpdateContextFrom(UpdateContextStep(ctx, step_list[i]), step_list, i + 1)

UpdateContext(ctx, execution_result) ==
    UpdateContextFrom(ctx, execution_result.steps, 1)

\* lines 74-78
NoPlanReturn(it) ==
    [success |-> FALSE, error |-> "Could not create execution plan", iteration |-> it]

\* lines 123-130 (task and available_tools are inputs handed back)
RunReturn(fr, it, ctx) ==
    [success |-> IF fr # None THEN fr[1].success ELSE FALSE,
     iterations |-> it,
     final_result |-> fr,
     execution_context |-> ctx]

\* a variant that allows one iteration more
LoopCondition_OffByOne == iteration <= max_iterations

\* line 64
LoopCondition == iteration < max_iterations

\* a variant of the planning phase without the check for an empty plan
PlanPhase_NoEmptyCheck(new_steps) ==
    /\ pc = "plan"
    /\ iteration < max_iterations
    /\ iteration' = iteration + 1
    /\ plan_calls' = plan_calls + 1
    /\ steps' = new_steps
    /\ pc' = "exec_start"
    /\ max_retries' = DefaultMaxRetries
    /\ UNCHANGED <<execution_order, pos, retry_count, context, results,
                   execution_history, attempts, processed, summary>>
    /\ UNCHANGED <<resolveVars, sessionVars, planned>>
    /\ UNCHANGED <<planner_output, max_iterations, execution_context, final_result,
                   ret, adjusted, exec_calls, adjust_calls>>

\* a variant in which an iteration after the first executes the steps the
\* iteration before left in steps
PlanPhase_AdjustedPlan(new_steps) ==
    /\ pc = "plan"
    /\ LoopCondition
    /\ iteration' = iteration + 1
    /\ plan_calls' = plan_calls + 1
    /\ steps' = IF iteration = 0 THEN new_steps ELSE steps
    /\ IF new_steps = <<>>
       THEN /\ ret' = Some(NoPlanReturn(iteration + 1))
            /\ pc' = "returned"
       ELSE /\ pc' = "exec_start"
            /\ UNCHANGED ret
    /\ max_retries' = DefaultMaxRetries
    /\ UNCHANGED <<execution_order, pos, retry_count, context, results,
                   execution_history, attempts, processed, summary>>
    /\ UNCHANGED <<resolveVars, sessionVars, planned>>
    /\ UNCHANGED <<planner_output, max_iterations, execution_context, final_result,
                   adjusted, exec_calls, adjust_calls>>

\* lines 64-86: the loop condition holds; the planning phase, in which
\* Planner.plan returns new_steps. An empty plan returns at once; otherwise
\* execute_plan is called with its default max_retries
PlanPhase(new_steps) ==
    /\ pc = "plan"
    /\ LoopCondition
    /\ iteration' = iteration + 1
    /\ plan_calls' = plan_calls + 1
    /\ steps' = new_steps
    /\ IF new_steps = <<>>
       THEN /\ ret' = Some(NoPlanReturn(iteration + 1))
            /\ pc' = "returned"
       ELSE /\ pc' = "exec_start"
            /\ UNCHANGED ret
    /\ max_retries' = DefaultMaxRetries
    /\ UNCHANGED <<execution_order, pos, retry_count, context, results,
                   execution_history, attempts, processed, summary>>
    /\ UNCHANGED <<resolveVars, sessionVars, planned>>
    /\ UNCHANGED <<planner_output, max_iterations, execution_context, final_result,
                   adjusted, exec_calls, adjust_calls>>

\* a variant that takes only a shorter adjusted plan for a stall
IsStall_Shorter(adjusted_steps, plan) == Len(adjusted_steps) < Len(plan)

\* line 106: the adjusted plan is as long as the executed one
IsStall(adjusted_steps, plan) == Len(adjusted_steps) = Len(plan)

\* ghost record of an adjust_plan call: what it was given, what it returned
\* and the counters of the run at the call
AdjustCall(plan, adjusted_steps) ==
    [given |-> plan, returned |-> adjusted_steps, iteration |-> iteration,
     plan_calls |-> plan_calls, exec_calls |-> exec_calls]

\* lines 88-116: execute_plan returned; the context update, the evaluation
\* and the replanning phase
Evaluate ==
    LET execution_result == summary[1]
        adjusted_steps == AdjustPlan(steps)
    IN  /\ pc = "pass_done"
        /\ execution_context' = UpdateContext(execution_context, execution_result)
        /\ IF execution_result.success
           THEN /\ final_result' = Some(execution_result)
                /\ pc' = "exit"
                /\ UNCHANGED <<steps, adjusted, adjust_calls>>
           ELSE IF execution_result.failed > 0
           THEN /\ adjust_calls' = adjust_calls + 1
                /\ adjusted' = Some(AdjustCall(steps, adjusted_steps))
                /\ IF IsStall(adjusted_steps, steps)
                   THEN /\ final_result' = Some(execution_result)
                        /\ pc' = "exit"
                        /\ UNCHANGED steps
                   ELSE /\ steps' = adjusted_steps
                        /\ pc' = "plan"
                        /\ UNCHANGED final_result
           ELSE /\ pc' = "plan"
                /\ UNCHANGED <<steps, adjusted, adjust_calls, final_result>>
        /\ UNCHANGED <<max_retries, execution_order, pos, retry_count, context,
                       results, execution_history, attempts, processed, summary>>
        /\ UNCHANGED <<resolveVars, sessionVars, planned>>
        /\ UNCHANGED <<planner_output, max_iterations, iteration, ret, plan_calls,
                       exec_calls>>

\* lines 118-130: the loop was left by a break or because its condition
\* failed; the run returns
Return ==
    /\ \/ pc = "exit"
       \/ pc = "plan" /\ ~LoopCondition
    /\ ret' = Some(RunReturn(final_result, iteration, execution_context))
    /\ pc' = "returned"
    /\ UNCHANGED execVars
    /\ UNCHANGED <<resolveVars, sessionVars, planned>>
    /\ UNCHANGED <<planner_output, max_iterations, iteration, execution_context,
                   final_result, adjusted, plan_calls, exec_calls, adjust_calls>>

----------------------------------------------------------------------------
(* Spec: one AgenticAI.execute run on a fresh agent *)

AgentTools == {"api_call", "calculate", "raising"}

\* the plan the planner makes of the task of the run: at most AgentMaxSteps
\* steps with ids 0..n-1 in plan order and at most AgentMaxEdges dependency
\* entries naming ids in 0..n
IsPlannerOutput(plan) ==
    \E n \in 1..AgentMaxSteps :
        \E dl \in DepAssignments(0..n, n, AgentMaxEdges) :
            \E tl \in [1..n -> AgentTools] :
                plan = MakePlan(n, Ascending(n), tl, dl)

\* what a call of self.planner.plan can return: new steps made of the task,
\* or no step, the signal for "could not create a plan"
PlanReturns == {planner_output, <<>>}

Init ==
    /\ pc = "plan"
    /\ steps = <<>>
    /\ max_retries = DefaultMaxRetries
    /\ FreshExecutor
    /\ NoResolveCall
    /\ tool_registry = RunRegistry
    /\ NoRegistryCall
    /\ NoPlannerCall
    /\ runs = 1
    /\ IsPlannerOutput(planner_output)
    /\ max_iterations \in (0..MaxIterBound) \cup {DefaultMaxIterations}
    /\ max_iterations > MaxIterBound => Len(planner_output) <= 1
    /\ max_iterations > 1 => Len(planner_output) < AgentMaxSteps
    /\ iteration = 0
    /\ execution_context = EmptyMap
    /\ final_result = None
    /\ ret = None
    /\ adjusted = None
    /\ plan_calls = 0
    /\ exec_calls = 0
    /\ adjust_calls = 0

Next ==
    \/ \E new_steps \in PlanReturns : PlanPhase(new_steps)
    \/ StartPass
    \/ SkipStep
    \/ BeginStep
    \/ RetryStep
    \/ \E outcome \in Outcomes : FinishStep(outcome)
    \/ FinishPass
    \/ Evaluate
    \/ Return

Spec == Init /\ [][Next]_vars

----------------------------------------------------------------------------
(* SpecReplan: one AgenticAI.execute run in which Planner.plan returns the
   plan of the task in every iteration and every tool call of a later
   iteration ends as the same call of the first iteration did *)

\* the records of the attempts of the step with this id, oldest first; the
\* history is never cleared during a run, so the records of the first
\* iteration come first
AttemptsRecorded(id) == SelectSeq(execution_history, LAMBDA r : r.step_id = id)

\* execute_step returns; from the second iteration on the tool ends the
\* attempt as it ended the attempt of the same number in the first iteration
FinishStepAsBefore(outcome) ==
    /\ pc = "in_step"
    /\ iteration > 1 =>
          /\ attempts[CurrentId] <= Len(AttemptsRecorded(CurrentId))
          /\ AttemptResult(CurrentStep, outcome) =
                AttemptsRecorded(CurrentId)[attempts[CurrentId]].result
    /\ FinishStep(outcome)

InitReplan ==
    /\ pc = "plan"
    /\ steps = <<>>
    /\ max_retries = DefaultMaxRetries
    /\ FreshExecutor
    /\ NoResolveCall
    /\ tool_registry = RunRegistry
    /\ NoRegistryCall
    /\ NoPlannerCall
    /\ runs = 1
    /\ IsPlannerOutput(planner_output)
    /\ max_iterations \in (1..(MaxIterBound + 1)) \cup {DefaultMaxIterations}
    /\ max_iterations > MaxIterBound + 1 => Len(planner_output) <= 1
    /\ iteration = 0
    /\ execution_context = EmptyMap
    /\ final_result = None
    /\ ret = None
    /\ adjusted = None
    /\ plan_calls = 0
    /\ exec_calls = 0
    /\ adjust_calls = 0

NextReplan ==
    \/ PlanPhase(planner_output)
    \/ StartPass
    \/ SkipStep
    \/ BeginStep
    \/ RetryStep
    \/ \E outcome \in Outcomes : FinishStepAsBefore(outcome)
    \/ FinishPass
    \/ Evaluate
    \/ Return

SpecReplan == InitReplan /\ [][NextReplan]_vars

----------------------------------------------------------------------------
(* SpecSession: successive AgenticAI.execute calls on one agent, with
   add_tool and reset between them *)

MaxRuns == 2

\* the context argument of an execute call: none, or one entry
ContextArguments == {EmptyMap, "note" :> "q"}

\* the name of the tool add_tool registers
CustomTool == "custom"

\* the local variables of execute_plan after the call has returned
NoPassRunning ==
    /\ execution_order' = <<>>
    /\ pos' = 0
    /\ retry_count' = 0
    /\ context' = EmptyMap
    /\ results' = EmptyMap
    /\ attempts' = EmptyMap
    /\ processed' = EmptyMap
    /\ summary' = None

\* execute, lines 54-62, on an agent whose last call has returned: the
\* context argument is merged into the agent's context, the locals start anew
NewRun(context_argument) ==
    /\ pc \in {"returned", "idle"}
    /\ runs < MaxRuns
    /\ runs' = runs + 1
    /\ execution_context' =
          IF context_argument # EmptyMap
          THEN Update(execution_context, context_argument)
          ELSE execution_context
    /\ iteration' = 0
    /\ steps' = <<>>
    /\ final_result' = None
    /\ ret' = None
    /\ adjusted' = None
    /\ plan_calls' = 0
    /\ exec_calls' = 0
    /\ adjust_calls' = 0
    /\ NoPassRunning
    /\ pc' = "plan"
    /\ UNCHANGED <<max_retries, execution_history, planner_output, max_iterations,
                   tool_registry, dispatched, listing>>
    /\ UNCHANGED <<resolveVars, planned>>

\* a variant of reset that keeps the executor's history
Reset_KeepsHistory ==
    /\ pc = "returned"
    /\ execution_context' = EmptyMap
    /\ pc' = "idle"
    /\ UNCHANGED <<execVars, resolveVars, sessionVars, planned>>
    /\ UNCHANGED <<planner_output, max_iterations, iteration, final_result, ret,
                   adjusted, plan_calls, exec_calls, adjust_calls>>

\* reset, lines 161-164, after a call of execute has returned
Reset ==
    /\ pc = "returned"
    /\ execution_context' = EmptyMap
    /\ execution_history' = <<>>
    /\ pc' = "idle"
    /\ UNCHANGED <<steps, max_retries, execution_order, pos, retry_count, context,
                   results, attempts, processed, summary>>
    /\ UNCHANGED <<resolveVars, sessionVars, planned>>
    /\ UNCHANGED <<planner_output, max_iterations, iteration, final_result, ret,
                   adjusted, plan_calls, exec_calls, adjust_calls>>

\* add_tool, lines 157-159, and ToolRegistry.register, between two calls
AddTool ==
    /\ pc \in {"returned", "idle"}
    /\ GetTool(tool_registry, CustomTool) = <<>>
    /\ tool_registry' = Register(tool_registry, Tool(CustomTool, 1))
    /\ UNCHANGED <<pc, runs, dispatched, listing>>
    /\ UNCHANGED <<execVars, agentVars, resolveVars, planned>>

\* a fresh agent in its first execute call, on a task planned as one step;
\* the caller has set max_iterations to 1 or 2
InitSession ==
    /\ pc = "plan"
    /\ steps = <<>>
    /\ max_retries = DefaultMaxRetries
    /\ FreshExecutor
    /\ NoResolveCall
    /\ tool_registry = RunRegistry
    /\ NoRegistryCall
    /\ NoPlannerCall
    /\ runs = 1
    /\ IsPlannerOutput(planner_output)
    /\ Len(planner_output) = 1
    /\ max_iterations \in {1, 2}
    /\ iteration = 0
    /\ execution_context = EmptyMap
    /\ final_result = None
    /\ ret = None
    /\ adjusted = None
    /\ plan_calls = 0
    /\ exec_calls = 0
    /\ adjust_calls = 0

NextSession ==
    \/ Next
    \/ \E context_argument \in ContextArguments : NewRun(context_argument)
    \/ Reset
    \/ AddTool

SpecSession == InitSession /\ [][NextSession]_vars

----------------------------------------------------------------------------
(* SpecUnknown: one execute_plan pass over a plan with steps whose tool is
   not registered *)

UnknownTools == {"calculate", "missing"}

IsUnknownPlan(plan) ==
    \E n \in 1..ExecMaxSteps :
        \E dl \in DepAssignments(0..n, n, ExecMaxEdges) :
            \E tl \in [1..n -> UnknownTools] :
                plan = MakePlan(n, Ascending(n), tl, dl)

InitUnknown ==
    /\ pc = "exec_start"
    /\ IsUnknownPlan(steps)
    /\ max_retries \in {0, DefaultMaxRetries}
    /\ FreshExecutor
    /\ IdleAgent
    /\ NoResolveCall

SpecUnknown == InitUnknown /\ [][NextExec]_vars

----------------------------------------------------------------------------
(* SpecFlaky: one execute_plan pass over a calculate step followed by a step
   of the tool "flaky", whose execute raises in some calls *)

InitFlaky ==
    /\ pc = "exec_start"
    /\ \E params \in ChainParameters :
          steps = ChainPlan(2, <<"calculate", "flaky">>, params)
    /\ max_retries \in (0..MaxRetriesBound) \cup {DefaultMaxRetries}
    /\ FreshExecutor
    /\ IdleAgent
    /\ NoResolveCall

SpecFlaky == InitFlaky /\ [][NextExec]_vars

----------------------------------------------------------------------------
(* SpecRegistry: register, execute_tool and list_tools calls on a registry *)

MaxToolObjects == 2

\* the names registered by the calls: a default tool's name and a new name
RegisteredNames == {"calculate", CustomTool}

\* the names looked up by the calls
LookedUpNames == RegisteredNames \cup {"missing"}

\* register(tool) for a tool object of the caller
RegisterCall(tool) ==
    /\ pc = "registry"
    /\ tool_registry' = Register(tool_registry, tool)
    /\ UNCHANGED <<pc, runs, dispatched, listing>>
    /\ UNCHANGED <<execVars, agentVars, resolveVars, planned>>

\* execute_tool(tool_name): the tool object found, <<>> if none, and the
\* result, which is the one of the found tool's execute
ExecuteToolCall(tool_name) ==
    /\ pc = "registry"
    /\ dispatched' =
          Some([tool_name |-> tool_name,
                tool |-> GetTool(tool_registry, tool_name),
                result |-> IF GetTool(tool_registry, tool_name) = <<>>
                           THEN NotFoundResult(tool_name, tool_registry)
                           ELSE SuccessResult(tool_name)])
    /\ UNCHANGED <<pc, tool_registry, runs, listing>>
    /\ UNCHANGED <<execVars, agentVars, resolveVars, planned>>

\* list_tools()
ListToolsCall ==
    /\ pc = "registry"
    /\ listing' = Some(ListTools(tool_registry))
    /\ UNCHANGED <<pc, tool_registry, runs, dispatched>>
    /\ UNCHANGED <<execVars, agentVars, resolveVars, planned>>

\* the registry of the runs, before a call
InitRegistry ==
    /\ pc = "registry"
    /\ steps = <<>>
    /\ max_retries = DefaultMaxRetries
    /\ FreshExecutor
    /\ IdleAgent
    /\ NoResolveCall

NextRegistry ==
    \/ \E name \in RegisteredNames :
          \E impl \in 1..MaxToolObjects : RegisterCall(Tool(name, impl))
    \/ \E tool_name \in LookedUpNames : ExecuteToolCall(tool_name)
    \/ ListToolsCall

SpecRegistry == InitRegistry /\ [][NextRegistry]_vars

----------------------------------------------------------------------------
(* SpecAdjust: Planner.adjust_plan applied to the plans a pass can leave *)

AdjustMaxSteps == 3

\* the tools of the plans given to adjust_plan
AdjustTools == {"api_call", "calculate", "web_search"}

\* the statuses a step can have when adjust_plan is called
AdjustStatuses == {"pending", "completed", "failed"}

\* the plan with the given tools and statuses, ids 0..n-1
StatusPlan(tools, statuses) ==
    [i \in 1..Len(tools) |->
        [PlanStep(i - 1, tools[i], <<>>) EXCEPT !.status = statuses[i]]]

\* adjust_plan(steps, execution_results), on a plan as given or on the plan
\* of a pass that has ended
AdjustPlanCall ==
    /\ pc \in {"adjust", "pass_done"}
    /\ steps' = AdjustPlanEffect(steps).steps
    /\ adjusted' = Some(AdjustCall(steps, AdjustPlanEffect(steps).returned))
    /\ adjust_calls' = adjust_calls + 1
    /\ pc' = "adjust_done"
    /\ UNCHANGED <<max_retries, execution_order, pos, retry_count, context,
                   results, execution_history, attempts, processed, summary>>
    /\ UNCHANGED <<resolveVars, sessionVars, planned>>
    /\ UNCHANGED <<planner_output, max_iterations, iteration, execution_context,
                   final_result, ret, plan_calls, exec_calls>>

InitAdjust ==
    /\ pc = "adjust"
    /\ \E n \in 0..AdjustMaxSteps :
          \E tools \in [1..n -> AdjustTools] :
             \E statuses \in [1..n -> AdjustStatuses] :
                steps = StatusPlan(tools, statuses)
    /\ max_retries = DefaultMaxRetries
    /\ FreshExecutor
    /\ IdleAgent
    /\ NoResolveCall

NextAdjust == AdjustPlanCall

SpecAdjust == InitAdjust /\ [][NextAdjust]_vars

----------------------------------------------------------------------------
(* SpecFrame: one execute_plan pass over a linear plan, then adjust_plan on
   the plan of the pass *)

FrameTools == {"api_call", "calculate"}

IsFramePlan(plan) ==
    \E n \in 1..ExecMaxSteps :
        \E tl \in [1..n -> FrameTools] :
            \E params \in ChainParameters :
                plan = ChainPlan(n, tl, params)

InitFrame ==
    /\ pc = "exec_start"
    /\ IsFramePlan(steps)
    /\ max_retries \in {0, DefaultMaxRetries}
    /\ FreshExecutor
    /\ IdleAgent
    /\ NoResolveCall

NextFrame == NextExec \/ AdjustPlanCall

SpecFrame == InitFrame /\ [][NextFrame]_vars

----------------------------------------------------------------------------
(* SpecPlanner: Planner.plan on the tasks made of a few pieces *)

PlanMaxPieces == 3

\* the pieces of the tasks: "write ", "read x.txt ", "calculate ", "2+2 ",
\* "then ", "after  that " (two blanks), "1. ", "go ", "Next " and "file "
TaskPieces ==
    {<<"w", "r", "i", "t", "e", " ">>,
     <<"r", "e", "a", "d", " ", "x", ".", "t", "x", "t", " ">>,
     <<"c", "a", "l", "c", "u", "l", "a", "t", "e", " ">>,
     <<"2", "+", "2", " ">>,
     <<"t", "h", "e", "n", " ">>,
     <<"a", "f", "t", "e", "r", " ", " ", "t", "h", "a", "t", " ">>,
     <<"1", ".", " ">>,
     <<"g", "o", " ">>,
     <<"N", "e", "x", "t", " ">>,
     <<"f", "i", "l", "e", " ">>}

\* the call record: the task and how plan ended
PlanCallOf(task) == [task |-> task, outcome |-> Plan(task)]

\* planner.plan(task, {}) by a caller of the planner
PlanCall ==
    /\ pc = "planner"
    /\ \E n \in 0..PlanMaxPieces :
          \E ps \in [1..n -> TaskPieces] :
             planned' = Some(PlanCallOf(Flatten(ps)))
    /\ pc' = "planned"
    /\ UNCHANGED <<execVars, agentVars, resolveVars, sessionVars>>

InitPlanner ==
    /\ pc = "planner"
    /\ steps = <<>>
    /\ max_retries = DefaultMaxRetries
    /\ FreshExecutor
    /\ IdleAgent
    /\ NoResolveCall

NextPlanner == PlanCall

SpecPlanner == InitPlanner /\ [][NextPlanner]_vars

----------------------------------------------------------------------------
(* SpecScope: execute calls on one agent, with a context argument or none, on
   a task planned as a chain whose last step has a reference in its
   parameters *)

ScopeTools == {"api_call", "calculate"}

\* "${note}"
NoteReference == <<"$", "{", "n", "o", "t", "e", "}">>

\* the parameters of the last step of the chain
ScopeParameters ==
    {"content" :> StrVal(NoteReference),
     "content" :> StrVal(CalculationTemplate),
     "content" :> StrVal(StepZeroReference)}

\* one step, or a calculate step and a step that depends on it
IsScopePlan(plan) ==
    \E tool \in ScopeTools :
        \E params \in ScopeParameters :
            \/ plan = ChainPlan(1, <<tool>>, params)
            \/ plan = ChainPlan(2, <<"calculate", tool>>, params)

\* a fresh agent in its first execute call, lines 54-62: the context argument
\* is the agent's context; the caller has set max_iterations to 1 or 2
InitScope ==
    /\ pc = "plan"
    /\ steps = <<>>
    /\ max_retries = DefaultMaxRetries
    /\ FreshExecutor
    /\ NoResolveCall
    /\ tool_registry = RunRegistry
    /\ NoRegistryCall
    /\ NoPlannerCall
    /\ runs = 1
    /\ IsScopePlan(planner_output)
    /\ max_iterations \in {1, 2}
    /\ max_iterations > 1 => Len(planner_output) = 1
    /\ iteration = 0
    /\ execution_context \in ContextArguments
    /\ final_result = None
    /\ ret = None
    /\ adjusted = None
    /\ plan_calls = 0
    /\ exec_calls = 0
    /\ adjust_calls = 0

\* the first call and one more call after it has returned
NextScope ==
    \/ Next
    \/ \E context_argument \in ContextArguments :
          runs = 1 /\ NewRun(context_argument)

SpecScope == InitScope /\ [][NextScope]_vars

----------------------------------------------------------------------------
(* SpecCycle: one execute_plan pass over a plan that ends with a step that
   depends on itself *)

\* plan is a plan of at most OrderMaxSteps calculate steps with ids 0..n-1,
\* whose dependency lists name ids in 0..n and have at most OrderMaxEdges
\* entries together, followed by the step n, which depends on itself
IsCyclePlan(plan) ==
    \E n \in 1..OrderMaxSteps :
        \E dl \in DepAssignments(0..n, n, OrderMaxEdges) :
            plan = MakePlan(n, Ascending(n), [i \in 1..n |-> "calculate"], dl)
                       \o <<PlanStep(n, "calculate", <<n>>)>>

InitCycle ==
    /\ pc = "exec_start"
    /\ IsCyclePlan(steps)
    /\ max_retries \in 0..MaxRetriesBound
    /\ FreshExecutor
    /\ IdleAgent
    /\ NoResolveCall

SpecCycle == InitCycle /\ [][NextExec]_vars

----------------------------------------------------------------------------
(* Properties of the execution order *)

Range(seq) == {seq[k] : k \in 1..Len(seq)}

\* the ids of the steps of the plan that the step with this id depends on
InPlanDeps(plan, id) ==
    Range(plan[StepIndex(plan, id)].dependencies) \cap StepIds(plan)

\* the ids reached from the ids of set along at most k dependency edges
RECURSIVE DepClosure(_, _, _)
DepClosure(plan, set, k) ==
    IF k = 0 THEN set
    ELSE DepClosure(plan, set \cup UNION {InPlanDeps(plan, id) : id \in set}, k - 1)

TransitiveDeps(plan, id) == DepClosure(plan, InPlanDeps(plan, id), Len(plan))

Acyclic(plan) == \A id \in StepIds(plan) : id \notin TransitiveDeps(plan, id)

PositionIn(order, id) == CHOOSE k \in 1..Len(order) : order[k] = id

OrderComputed == pc # "exec_start" /\ pc # "plan" /\ pc # "returned"

\* C1: for a plan with unique ids whose in-plan dependencies are acyclic, the
\* order _resolve_dependencies returns lists every step after each of the
\* steps of the plan it depends on
C1_TopologicalOrder ==
    (OrderComputed /\ Acyclic(steps)) =>
        \A id \in StepIds(steps) : \A dep \in InPlanDeps(steps, id) :
            /\ id \in Range(execution_order)
            /\ dep \in Range(execution_order)
            /\ PositionIn(execution_order, dep) < PositionIn(execution_order, id)

\* a dependency list that names a step of the plan more than once
NamesTwice(plan, id) ==
    LET deps == plan[StepIndex(plan, id)].dependencies
    IN  \E j, k \in 1..Len(deps) : j # k /\ deps[j] = deps[k] /\ deps[j] \in StepIds(plan)

\* the steps Kahn's algorithm dequeues, as a least fixed point: a step is
\* dequeued when its in-degree reaches 0, that is when every step it depends
\* on was dequeued and its list names none of them twice
RECURSIVE DequeuedWithin(_, _, _)
DequeuedWithin(plan, set, k) ==
    IF k = 0 THEN set
    ELSE DequeuedWithin(plan,
             {id \in StepIds(plan) :
                 ~NamesTwice(plan, id) /\ InPlanDeps(plan, id) \subseteq set},
             k - 1)

Dequeued(plan) == DequeuedWithin(plan, {}, Len(plan))

PassDone == pc = "pass_done"

\* C2: for every plan with unique ids, cycles and dangling references
\* included, the execution order holds every step id exactly once, the steps
\* Kahn's algorithm never dequeues come last in plan order, and execute_plan
\* processes every step at most once while it runs and exactly once when it
\* has returned
C2_EveryStepOnce ==
    /\ OrderComputed =>
          /\ Len(execution_order) = Len(steps)
          /\ Range(execution_order) = StepIds(steps)
          /\ LET never == SelectSeq(IdList(steps), LAMBDA id : id \notin Dequeued(steps))
                 n == Len(execution_order) - Len(never)
             IN  /\ n >= 0
                 /\ SubSeq(execution_order, n + 1, Len(execution_order)) = never
          /\ \A id \in StepIds(steps) :
                processed[id] = IF PositionIn(execution_order, id) < pos THEN 1 ELSE
                                IF PositionIn(execution_order, id) = pos /\ pc \in {"in_step", "retry"}
                                THEN 1 ELSE 0
    /\ PassDone => \A id \in StepIds(steps) : processed[id] = 1 /\ id \in DOMAIN results

\* a bound on the number of actions a pass has left: at most
\* 2 * (max_retries + 1) per step that is still to be processed
StepCost == 2 * (max_retries + 1) + 1
PassVariant ==
    CASE pc = "exec_start" -> Len(steps) * StepCost + 2
      [] pc = "loop"       -> (Len(steps) - pos + 1) * StepCost + 1
      [] pc = "in_step"    -> (Len(steps) - pos) * StepCost + 2 * (max_retries - retry_count) + 2
      [] pc = "retry"      -> (Len(steps) - pos) * StepCost + 2 * (max_retries - retry_count) + 3
      [] OTHER             -> 0

\* a bound on the number of actions a run has left
IterationCost == Len(planner_output) * (2 * (DefaultMaxRetries + 1) + 1) + 7
RunVariant ==
    CASE pc = "returned"  -> 0
      [] pc = "exit"      -> 1
      [] pc = "plan"      -> (max_iterations - iteration) * IterationCost + 2
      [] pc = "pass_done" -> (max_iterations - iteration) * IterationCost + 3
      [] OTHER            -> (max_iterations - iteration) * IterationCost + 4 + PassVariant

\* the pass can take an action (StartPass has no condition but its pc)
PassCanGoOn ==
    \/ pc = "exec_start"
    \/ ENABLED (\/ SkipStep
                \/ BeginStep
                \/ RetryStep
                \/ \E outcome \in Outcomes : FinishStep(outcome)
                \/ FinishPass)

\* C2: the above in every state of a pass, and the pass terminates: every
\* action of the pass lowers a natural number, and the pass can always go on
\* until it has returned
C2_TerminatesEveryStepOnce ==
    /\ []C2_EveryStepOnce
    /\ [](PassVariant >= 0)
    /\ [][PassVariant' < PassVariant]_vars
    /\ [](~PassDone => PassCanGoOn)

\* C2 witness: a pass over a plan with a dependency cycle and a dangling
\* reference has returned
C2_Witness ==
    /\ PassDone
    /\ ~Acyclic(steps)
    /\ \E i \in 1..Len(steps) : Range(steps[i].dependencies) \ StepIds(steps) # {}

----------------------------------------------------------------------------
(* Properties of a pass *)

StatusOf(plan, id) == plan[StepIndex(plan, id)].status

\* a dependency of the step is absent from the plan or not completed
HasUnsatisfiedDependency(step, plan) ==
    \E dep \in Range(step.dependencies) :
        dep \notin StepIds(plan) \/ StatusOf(plan, dep) # "completed"

IsDependencyError(result) ==
    ~result.success /\ result.error = "Dependencies not satisfied"

RecordsOf(id) == SelectSeq(execution_history, LAMBDA r : r.step_id = id)

\* the for loop of execute_plan has reached a step
StepReached == pc = "loop" /\ pos <= Len(execution_order)

\* C3: a step reached while one of its dependencies is absent from the plan
\* or not completed is marked failed with the unsatisfied-dependency result
\* and is never attempted; and while an attempt of a step runs, every
\* dependency of the step is a completed step of the plan
C3_DependencyGating ==
    /\ [][(StepReached /\ HasUnsatisfiedDependency(CurrentStep, steps)) =>
            /\ steps'[CurrentIndex].status = "failed"
            /\ CurrentId \in DOMAIN results'
            /\ IsDependencyError(results'[CurrentId])
            /\ attempts'[CurrentId] = 0
            /\ execution_history' = execution_history
            /\ pc' = "loop" /\ pos' = pos + 1]_vars
    /\ [](\A id \in DOMAIN results :
            IsDependencyError(results[id]) =>
                /\ attempts[id] = 0
                /\ RecordsOf(id) = <<>>
                /\ StatusOf(steps, id) = "failed")
    /\ []((pc = "in_step" \/ pc = "retry") =>
            \A dep \in Range(CurrentStep.dependencies) :
                dep \in StepIds(steps) /\ StatusOf(steps, dep) = "completed")

\* C3 witness: a pass has skipped one step because a step it depends on had
\* failed all its attempts, and another because its dependency is in no plan
C3_Witness ==
    /\ PassDone
    /\ \E id \in StepIds(steps) :
          /\ IsDependencyError(results[id]) /\ attempts[id] = 0
          /\ \E dep \in InPlanDeps(steps, id) :
                dep # id /\ StatusOf(steps, dep) = "failed" /\ attempts[dep] > 0

\* the for loop is past the step
StepFinished(id) == OrderComputed /\ PositionIn(execution_order, id) < pos

\* C4: a step is attempted at most 1 + max_retries times, no attempt follows
\* a successful one, and a step whose dependencies were satisfied has been
\* attempted, when the loop is past it, up to its first success or, with no
\* success, exactly 1 + max_retries times
C4_RetryBound ==
    OrderComputed =>
        \A id \in StepIds(steps) :
            LET recs == RecordsOf(id)
                n == Len(recs)
                current == pos <= Len(execution_order) /\ CurrentId = id
                running == pc = "in_step" /\ current
            IN  /\ attempts[id] = n + (IF running THEN 1 ELSE 0)
                /\ attempts[id] <= 1 + max_retries
                /\ \A k \in 1..n :
                      recs[k].result.success =>
                          k = n /\ ~running /\ ~(pc = "retry" /\ current)
                /\ (StepFinished(id) /\ ~IsDependencyError(results[id])) =>
                      /\ n >= 1
                      /\ recs[n].result.success \/ n = 1 + max_retries

\* C4 witness: with the default max_retries, a step has failed all its
\* attempts and was attempted 3 times
C4_Witness ==
    /\ PassDone
    /\ max_retries = DefaultMaxRetries
    /\ \E id \in StepIds(steps) :
          /\ attempts[id] = 3
          /\ \A k \in 1..Len(RecordsOf(id)) : ~RecordsOf(id)[k].result.success

----------------------------------------------------------------------------
(* Properties of a run *)

Returned == pc = "returned"

\* the iteration count a run returns
ReturnedIterations ==
    IF "iterations" \in DOMAIN ret[1] THEN ret[1].iterations ELSE ret[1].iteration

\* the run can take an action; each action is enabled at its own values of pc
\* only, and StartPass has no condition but its pc
RunCanGoOn ==
    \/ pc = "exec_start"
    \/ /\ pc = "plan"
       /\ ENABLED (\/ \E new_steps \in PlanReturns : PlanPhase(new_steps)
                   \/ Return)
    \/ /\ pc \in {"loop", "in_step", "retry"}
       /\ ENABLED (\/ SkipStep
                   \/ BeginStep
                   \/ RetryStep
                   \/ \E outcome \in Outcomes : FinishStep(outcome)
                   \/ FinishPass)
    \/ pc = "pass_done" /\ ENABLED Evaluate
    \/ pc = "exit" /\ ENABLED Return

\* C5: Planner.plan and execute_plan are each called at most max_iterations
\* times in a run and the returned iteration count is at most max_iterations;
\* the run terminates: every action lowers a natural number, and the run can
\* always go on until it has returned
C5_BoundedIterations ==
    /\ [](/\ plan_calls <= max_iterations
          /\ exec_calls <= max_iterations
          /\ iteration <= max_iterations
          /\ Returned => ReturnedIterations <= max_iterations)
    /\ [](RunVariant >= 0)
    /\ [][RunVariant' < RunVariant]_vars
    /\ [](~Returned => RunCanGoOn)

\* C5 witness: a run with the default bound has used its 10 iterations
C5_Witness ==
    /\ Returned
    /\ max_iterations = DefaultMaxIterations
    /\ plan_calls = 10 /\ exec_calls = 10
    /\ ReturnedIterations = 10

\* C6: a run that executed at least one plan returns the summary of its last
\* pass as final_result
C6_ReturnsLastSummary ==
    (Returned /\ exec_calls >= 1) =>
        /\ "final_result" \in DOMAIN ret[1]
        /\ ret[1].final_result = summary

\* the last adjust_plan call of the run returned a sequence of another length
\* than the one it was given
Replanned == adjusted # None /\ Len(adjusted[1].returned) # Len(adjusted[1].given)

\* the last adjust_plan call of the run returned a sequence as long as the
\* one it was given
Stalled == adjusted # None /\ Len(adjusted[1].returned) = Len(adjusted[1].given)

SameSteps(p, q) ==
    /\ Len(p) = Len(q)
    /\ \A i \in 1..Len(p) : p[i].step_id = q[i].step_id /\ p[i].tool = q[i].tool

\* C7: the pass that follows a replanning step executes the adjusted
\* sequence, and Planner.plan was not called in between
C7_AdjustedPlanExecutedNext ==
    (Replanned /\ pc = "exec_start") =>
        /\ plan_calls = adjusted[1].plan_calls
        /\ SameSteps(steps, adjusted[1].returned)

\* C8: once adjust_plan has returned a sequence as long as the executed one,
\* the loop is left in that iteration with that iteration's summary as
\* final_result, the run returns success = false, and neither Planner.plan
\* nor execute_plan is called again
C8_StallTerminates ==
    Stalled =>
        /\ pc \in {"exit", "returned"}
        /\ summary # None /\ ~summary[1].success
        /\ final_result = summary
        /\ iteration = adjusted[1].iteration
        /\ plan_calls = adjusted[1].plan_calls
        /\ exec_calls = adjusted[1].exec_calls
        /\ Returned =>
              /\ ret[1].success = FALSE
              /\ ret[1].final_result = summary
              /\ ret[1].iterations = adjusted[1].iteration

\* C8 witness: a run with the default bound has returned after a stall in its
\* first iteration
C8_Witness ==
    /\ Stalled /\ Returned
    /\ max_iterations = DefaultMaxIterations
    /\ ret[1].iterations = 1 /\ ~ret[1].success

\* C9: when Planner.plan returns no step, the run returns at once with
\* success = false, the could-not-create-execution-plan error and the number
\* of the current iteration, without a call of execute_plan and without a
\* change of the execution context; a run that has returned does nothing more
C9_EmptyPlanReturns ==
    /\ [][(plan_calls' = plan_calls + 1 /\ steps' = <<>>) =>
            /\ pc' = "returned"
            /\ ret' = Some([success |-> FALSE,
                            error |-> "Could not create execution plan",
                            iteration |-> iteration + 1])
            /\ plan_calls = 0 => ret'[1].iteration = 1
            /\ exec_calls' = exec_calls
            /\ execution_context' = execution_context]_vars
    /\ [][~Returned]_vars

\* C9 witness: the first Planner.plan call of a run returned no step and the
\* run has returned
C9_Witness ==
    /\ Returned
    /\ steps = <<>>
    /\ plan_calls = 1 /\ exec_calls = 0
    /\ ret[1].iteration = 1

\* C10: a run returns success = true exactly when its last pass reported no
\* failed step; after a pass without a failed step, adjust_plan is not called
\* and neither Planner.plan nor execute_plan is called again
C10_SuccessIffNoFailedStep ==
    /\ Returned =>
          (ret[1].success <=>
              /\ exec_calls >= 1
              /\ summary[1].failed = 0
              /\ \A i \in 1..Len(summary[1].steps) : summary[1].steps[i].status # "failed")
    /\ (summary # None /\ summary[1].failed = 0) =>
          /\ pc \in {"pass_done", "exit", "returned"}
          /\ plan_calls = iteration /\ exec_calls = iteration
          /\ adjust_calls = iteration - 1
          /\ adjusted # None => adjusted[1].iteration < iteration

\* C10 witness: a run has returned success = true from its second iteration
C10_Witness ==
    /\ Returned
    /\ "iterations" \in DOMAIN ret[1]
    /\ ret[1].success /\ ret[1].iterations = 2

----------------------------------------------------------------------------
(* Properties of _resolve_parameters *)

\* the value reached from value along the segments: absent when a segment is
\* missing or when the value before it is no mapping
RECURSIVE Reached(_, _)
Reached(value, segments) ==
    IF segments = <<>> THEN value
    ELSE IF value.kind = "dict" /\ KeyOf(Head(segments)) \in DOMAIN value.map
         THEN Reached(value.map[KeyOf(Head(segments))], Tail(segments))
         ELSE NoneVal

\* s is "${" path "}" for a path without "$", "{" and "}"
IsReference(s) ==
    /\ Len(s) >= 3
    /\ s[1] = "$" /\ s[2] = "{" /\ s[Len(s)] = "}"
    /\ \A i \in 3..(Len(s) - 1) : s[i] \notin {"$", "{", "}"}

ReferencePath(s) == SubSeq(s, 3, Len(s) - 1)

RefAB == <<"$", "{", "a", ".", "b", "}">>

\* C13: a str parameter of the exact form ${path} resolves to the value
\* reached in the context along the dot-separated segments of path, and to an
\* absent value when a segment is missing or an intermediate value is no
\* mapping: ${a.b} is 7 in {a: {b: 7}} and absent in {a: 5}
C13_ReferenceResolves ==
    (pc = "resolved" /\ parameters["p"].kind = "str") =>
        LET s == parameters["p"].chars
            got == resolved[1]["p"]
        IN  /\ IsReference(s) =>
                  got = Reached(DictVal(resolve_context), Split(ReferencePath(s)))
            /\ (s = RefAB /\ resolve_context = ("a" :> DictVal("b" :> IntVal(7)))) =>
                  got = IntVal(7)
            /\ (s = RefAB /\ resolve_context = ("a" :> IntVal(5))) =>
                  got = NoneVal

\* C13 witness: ${a.b} was resolved to 7 in the context {a: {b: 7}}
C13_Witness ==
    /\ pc = "resolved"
    /\ parameters["p"] = StrVal(RefAB)
    /\ resolve_context = ("a" :> DictVal("b" :> IntVal(7)))
    /\ resolved[1]["p"] = IntVal(7)

\* the str in which every {{path}} occurrence, read from left to right, is
\* replaced by the string form of the value of path when there is one
RECURSIVE Expand(_, _)
Expand(s, ctx) ==
    IF s = <<>> THEN <<>>
    ELSE IF MatchesHere(s)
         THEN LET n == RunLength(From(s, 3))
                  value == Reached(DictVal(ctx), Split(Strip(SubSeq(s, 3, 2 + n))))
              IN  (IF value.kind # "none" THEN ToStr(value) ELSE SubSeq(s, 1, 4 + n))
                  \o Expand(From(s, 5 + n), ctx)
         ELSE <<Head(s)>> \o Expand(Tail(s), ctx)

\* C14: a str parameter with one or more {{path}} occurrences, whatever
\* precedes or follows them, resolves to the str in which every occurrence
\* whose path has a value is replaced by the string form of the value and
\* every other occurrence is kept as it is
C14_TemplateExpanded ==
    (/\ pc = "resolved"
     /\ parameters["p"].kind = "str"
     /\ FindAll(parameters["p"].chars) # <<>>) =>
        resolved[1]["p"] = StrVal(Expand(parameters["p"].chars, resolve_context))

\* s has a ${...} or a {{...}} marker
HasMarker(s) ==
    \/ \E i \in 1..Len(s) : \E j \in (i + 2)..Len(s) :
          SubSeq(s, i, i + 1) = <<"$", "{">> /\ s[j] = "}"
    \/ \E i \in 1..Len(s) : \E j \in (i + 2)..(Len(s) - 1) :
          SubSeq(s, i, i + 1) = <<"{", "{">> /\ SubSeq(s, j, j + 1) = <<"}", "}">>

MarkerFree(params) ==
    \A key \in DOMAIN params :
        params[key].kind = "str" => ~HasMarker(params[key].chars)

\* C15: resolving a parameter mapping none of whose values has a ${...} or a
\* {{...}} marker returns the mapping, the first time and again on what was
\* returned; a value that is no str is returned as it is in every mapping
C15_MarkerFreeUnchanged ==
    (pc \in {"resolved", "resolved_again"}) =>
        /\ MarkerFree(parameters) => resolved[1] = parameters
        /\ DOMAIN resolved[1] = DOMAIN parameters
        /\ \A key \in DOMAIN parameters :
              parameters[key].kind # "str" => resolved[1][key] = parameters[key]

\* C15 witness: a str with "{{" and no marker was resolved twice and is
\* unchanged
C15_Witness ==
    /\ pc = "resolved_again"
    /\ parameters["p"] = StrVal(<<"{", "{", " ", "a">>)
    /\ resolved[1] = parameters

----------------------------------------------------------------------------
(* Properties of the running context of a pass *)

LastRecord == execution_history[Len(execution_history)]

\* C11: after every attempt of a step, a failed one included, each field of
\* the attempt's result named content, file_path, response, results or result
\* is in the running context under its well-known key, before the retry or
\* the next step
C11_AttemptFieldsInContext ==
    (pc \in {"retry", "loop", "pass_done"} /\ execution_history # <<>>) =>
        \A f \in WellKnownFields \cap DOMAIN LastRecord.result.fields :
            /\ WellKnownKey(f) \in DOMAIN context
            /\ context[WellKnownKey(f)] = LastRecord.result.fields[f]

\* the steps of a chain that are listed before the step id
Before(id) == {j \in StepIds(steps) : j < id}

ToolOf(id) == steps[StepIndex(steps, id)].tool

\* the completed steps before id whose result has the field f
Writers(id, f) ==
    {j \in Before(id) : StatusOf(steps, j) = "completed" /\ f \in DOMAIN Payload(ToolOf(j))}

LastWriter(id, f) == CHOOSE j \in Writers(id, f) : \A i \in Writers(id, f) : i <= j

\* what the parameters params of step id of a chain resolve to when the
\* steps before it have completed
ExpectedParameters(id, params) ==
    [key \in DOMAIN params |->
        CASE params[key] = StrVal(CalculationTemplate) ->
                IF Writers(id, "result") # {}
                THEN StrVal(<<"4", "2">>) ELSE params[key]
          [] params[key] = StrVal(FilePathTemplate) ->
                IF Writers(id, "file_path") # {}
                THEN StrVal(CharsOf(Payload(ToolOf(LastWriter(id, "file_path")))["file_path"]))
                ELSE params[key]
          [] params[key] = StrVal(StepZeroReference) ->
                IF id > 0 /\ ToolOf(0) = "calculate" THEN IntVal(42) ELSE NoneVal
          [] OTHER -> params[key]]

\* C12: in a pass over a chain, once a step has completed, the running
\* context holds its result under step_<id>_result and, under each well-known
\* key, the field of the latest completed step that has it; every attempt of
\* a later step resolves its parameters against that: "{{calculation_result}}"
\* is "42" after a calculate step
C12_LaterStepsSeeOutputs ==
    /\ (pc \in {"loop", "pass_done"}) =>
          \A id \in StepIds(steps) :
              (StepFinished(id) /\ StatusOf(steps, id) = "completed") =>
                  /\ StepResultKey(id) \in DOMAIN context
                  /\ context[StepResultKey(id)] = results[id]
                  /\ \A f \in WellKnownFields \cap DOMAIN results[id].fields :
                        /\ WellKnownKey(f) \in DOMAIN context
                        /\ context[WellKnownKey(f)] =
                              Payload(ToolOf(LastWriter(Len(steps), f)))[f]
    /\ \A k \in 1..Len(execution_history) :
          LET record == execution_history[k]
              step == steps[StepIndex(steps, record.step_id)]
          IN  record.parameters = ExpectedParameters(record.step_id, step.parameters)

\* C12 witness: a chain that starts with a calculate step has ended, and an
\* attempt of its last step had "{{calculation_result}}" resolved to "42"
C12_Witness ==
    /\ pc = "pass_done"
    /\ Len(steps) >= 2
    /\ steps[1].tool = "calculate"
    /\ steps[Len(steps)].parameters = ("content" :> StrVal(CalculationTemplate))
    /\ \E k \in 1..Len(execution_history) :
          /\ execution_history[k].step_id = Len(steps) - 1
          /\ execution_history[k].parameters = ("content" :> StrVal(<<"4", "2">>))

\* C16: in a chain 0 -> 1 -> ... -> n in which the steps before step k
\* succeed and step k fails on every attempt, every step after k ends failed
\* with the unsatisfied-dependency error and without an attempt, and the
\* summary counts k completed, n - k + 1 failed and no pending step
C16_FailurePropagates ==
    PassDone =>
        \A k \in StepIds(steps) :
            (/\ \A j \in Before(k) : StatusOf(steps, j) = "completed"
             /\ StatusOf(steps, k) = "failed") =>
                /\ attempts[k] = max_retries + 1
                /\ \A j \in StepIds(steps) :
                      j > k => /\ StatusOf(steps, j) = "failed"
                               /\ IsDependencyError(results[j])
                               /\ attempts[j] = 0
                               /\ RecordsOf(j) = <<>>
                /\ summary[1].completed = k
                /\ summary[1].failed = (Len(steps) - 1) - k + 1
                /\ summary[1].pending = 0
                /\ ~summary[1].success

\* C16 witness: the pass over a chain of three steps whose step 1 failed on
\* every attempt has ended with completed = 1, failed = 2, pending = 0
C16_Witness ==
    /\ PassDone
    /\ Len(steps) = 3
    /\ max_retries = DefaultMaxRetries
    /\ StatusOf(steps, 0) = "completed"
    /\ attempts[1] = 3 /\ StatusOf(steps, 1) = "failed"
    /\ attempts[2] = 0 /\ IsDependencyError(results[2])
    /\ summary[1].completed = 1 /\ summary[1].failed = 2 /\ summary[1].pending = 0

----------------------------------------------------------------------------
(* Properties of the history and of the contexts of a run *)

RECURSIVE SumAttempts(_)
SumAttempts(ids) ==
    IF ids = {} THEN 0
    ELSE LET id == CHOOSE i \in ids : TRUE
         IN  attempts[id] + SumAttempts(ids \ {id})

\* C17: the execution history the summary of a pass carries has one record
\* per attempt made in that pass and no record of another pass: its length
\* is the number of attempts of the pass, in every pass of a run
C17_HistoryOfThisPass ==
    PassDone => Len(execution_history) = SumAttempts(StepIds(steps))

\* the pass of the summary was merged into the orchestration context
ContextUpdated == pc \in {"exit", "plan", "returned"} /\ summary # None

\* C18: after a pass the orchestration context has, for every completed step,
\* step_<id>_result and the last-value key of each field of its result:
\* last_file_content for content, last_file_path for file_path,
\* last_api_response for response, last_search_results for results
C18_LastValueKeys ==
    ContextUpdated =>
        \A i \in 1..Len(summary[1].steps) :
            LET step_data == summary[1].steps[i]
                f == step_data.result[1].fields
                Has(field, key) ==
                    field \in DOMAIN f =>
                        /\ key \in DOMAIN execution_context
                        /\ \E j \in 1..Len(summary[1].steps) :
                              LET other == summary[1].steps[j]
                              IN  /\ other.status = "completed"
                                  /\ field \in DOMAIN other.result[1].fields
                                  /\ execution_context[key] = other.result[1].fields[field]
            IN  step_data.status = "completed" =>
                    /\ StepResultKey(step_data.step_id) \in DOMAIN execution_context
                    /\ Has("content", "last_file_content")
                    /\ Has("file_path", "last_file_path")
                    /\ Has("response", "last_api_response")
                    /\ Has("results", "last_search_results")

\* C19: but for the fresh context a pass starts with, every step of the
\* program keeps the keys of the running context, and every step keeps the keys
\* of the orchestration context; an attempt that did not succeed, a stall and
\* the return at the iteration bound leave both contexts as they are
C19_ContextNeverShrinks ==
    [][/\ pc # "exec_start" => DOMAIN context \subseteq DOMAIN context'
       /\ DOMAIN execution_context \subseteq DOMAIN execution_context'
       /\ (pc = "in_step" /\ ~LastRecord'.result.success) =>
              context' = context /\ execution_context' = execution_context
       /\ pc' = "returned" =>
              context' = context /\ execution_context' = execution_context]_vars

\* C19 witness: a run has returned without success at the iteration bound
\* after a pass in which a step failed behind a completed one, and both
\* contexts still hold the completed step's entries
C19_Witness ==
    /\ Returned
    /\ ~ret[1].success
    /\ summary # None /\ summary[1].failed > 0 /\ summary[1].completed > 0
    /\ ~LastRecord.result.success
    /\ StepResultKey(0) \in DOMAIN context
    /\ StepResultKey(0) \in DOMAIN execution_context
    /\ ret[1].execution_context = execution_context

----------------------------------------------------------------------------
(* Properties of a session *)

\* C20: the orchestration context keeps its entries from one iteration to
\* the next and from one execute call to the next (a new call adds its context
\* argument, it removes nothing and leaves the history alone); only reset
\* empties it, and reset leaves the context and the execution history empty
\* and the tool registry and max_iterations as they were
C20_AccumulatesUntilReset ==
    [][/\ pc' # "idle" =>
            \A k \in DOMAIN execution_context :
                /\ k \in DOMAIN execution_context'
                /\ (runs' # runs /\ k \notin {"note"}) =>
                        execution_context'[k] = execution_context[k]
       /\ runs' # runs => execution_history' = execution_history
       /\ (pc = "returned" /\ pc' = "idle") =>
            /\ execution_context' = EmptyMap
            /\ execution_history' = <<>>
            /\ tool_registry' = tool_registry
            /\ max_iterations' = max_iterations
       /\ max_iterations' = max_iterations
       /\ Range(ToolKeys(tool_registry)) \subseteq Range(ToolKeys(tool_registry'))]_vars

\* C20 witness: on an agent with max_iterations = 1 and an added tool, the
\* second execute call completed no step and returned a context that still
\* held the result of the step the first call completed, next to the context
\* argument of the second call; reset was called then, and the context and
\* the history are empty
C20_Witness ==
    /\ pc = "idle"
    /\ runs = 2
    /\ max_iterations = 1
    /\ summary # None /\ summary[1].completed = 0
    /\ ret # None
    /\ StepResultKey(0) \in DOMAIN ret[1].execution_context
    /\ "note" \in DOMAIN ret[1].execution_context
    /\ execution_context = EmptyMap
    /\ execution_history = <<>>
    /\ tool_registry = Register(RunRegistry, Tool(CustomTool, 1))

----------------------------------------------------------------------------
(* Properties of the registry *)

KeySet(tools) == Range(ToolKeys(tools))

\* C21: the registry holds one tool per identifier; a register call makes
\* its tool the one found under the tool's identifier and leaves every other
\* identifier with the tool it had, so that a call of execute_tool runs the
\* tool registered last under the identifier; list_tools returns one
\* (name, description) entry per identifier, with the description of that tool
C21_LastRegisteredWins ==
    /\ [](\A i, j \in 1..Len(tool_registry) :
            tool_registry[i].name = tool_registry[j].name => i = j)
    /\ [][/\ tool_registry' # tool_registry =>
              \E name \in RegisteredNames :
                  \E impl \in 1..MaxToolObjects :
                      /\ GetTool(tool_registry', name) = <<Tool(name, impl)>>
                      /\ KeySet(tool_registry') = KeySet(tool_registry) \cup {name}
                      /\ \A other \in KeySet(tool_registry) \ {name} :
                            GetTool(tool_registry', other) = GetTool(tool_registry, other)
          /\ dispatched' # dispatched =>
              LET call == dispatched'[1]
              IN  /\ tool_registry' = tool_registry
                  /\ call.tool_name \in KeySet(tool_registry) =>
                        /\ call.tool # <<>>
                        /\ call.tool[1] \in Range(tool_registry)
                        /\ call.tool[1].name = call.tool_name
                        /\ call.result.success
          /\ listing' # listing =>
              LET list == listing'[1]
              IN  /\ tool_registry' = tool_registry
                  /\ Len(list) = Cardinality(KeySet(tool_registry))
                  /\ {list[i].name : i \in 1..Len(list)} = KeySet(tool_registry)
                  /\ \A i \in 1..Len(list) :
                        \E tool \in Range(tool_registry) :
                            /\ tool.name = list[i].name
                            /\ tool.description = list[i].description]_vars

\* C21 witness: a tool was registered under the identifier of the default
\* tool calculate after the tool custom was registered; calculate dispatches
\* to that tool, and the listing has one entry per identifier, the one of
\* calculate with the new tool's description
C21_Witness ==
    /\ pc = "registry"
    /\ tool_registry[6] = Tool("calculate", 2)
    /\ tool_registry[Len(tool_registry)] = Tool(CustomTool, 1)
    /\ dispatched # <<>>
    /\ dispatched[1].tool = <<Tool("calculate", 2)>>
    /\ listing = Some(ListTools(tool_registry))
    /\ Len(listing[1]) = Len(DefaultToolList) + 3
    /\ listing[1][6] = [name |-> "calculate", description |-> "custom"]

\* the step's tool is no key of the registry
UnknownTool(step) == GetTool(tool_registry, step.tool) = <<>>

\* every dependency of the step is a step of the plan that stands before it in
\* the execution order and has completed
DependenciesCompletedBefore(step) ==
    \A dep \in Range(step.dependencies) :
        /\ dep \in StepIds(steps)
        /\ StatusOf(steps, dep) = "completed"
        /\ \E k, l \in 1..Len(execution_order) :
              k < l /\ execution_order[k] = dep /\ execution_order[l] = step.step_id

\* C22: an attempt of a step whose tool is not registered ends with a failure
\* result that names the tool and the registered identifiers, not with a
\* fault, and leaves the registry as it was; the step ends failed, and at the
\* end of the pass every step whose tool is registered and whose dependencies
\* completed before it in the execution order has been attempted
C22_UnknownToolFails ==
    /\ [][(pc = "in_step" /\ UnknownTool(CurrentStep)) =>
            /\ Len(execution_history') = Len(execution_history) + 1
            /\ ~LastRecord'.result.success
            /\ LastRecord'.result.error =
                  "Tool 'missing' not found. Available tools: ['file_read', 'file_write', 'file_list', 'api_call', 'web_search', 'calculate', 'system_command', 'json_parse', 'raising', 'flaky']"
            /\ "step_id" \notin DOMAIN LastRecord'.result.fields
            /\ steps'[CurrentIndex].status = "failed"
            /\ tool_registry' = tool_registry]_vars
    /\ [](PassDone =>
            \A i \in 1..Len(steps) :
                /\ UnknownTool(steps[i]) => steps[i].status = "failed"
                /\ (~UnknownTool(steps[i]) /\ DependenciesCompletedBefore(steps[i])) =>
                      /\ attempts[steps[i].step_id] >= 1
                      /\ ~IsDependencyError(results[steps[i].step_id]))

\* C22 witness: a pass has ended in which step 0, whose tool is not
\* registered, failed its three attempts with the not-found result and step 1,
\* which does not depend on it, completed
C22_Witness ==
    /\ PassDone
    /\ Len(steps) = 2
    /\ UnknownTool(steps[1]) /\ steps[1].status = "failed" /\ attempts[0] = 3
    /\ results[0] = NotFoundResult("missing", RunRegistry)
    /\ steps[2].dependencies = <<>> /\ steps[2].status = "completed"

----------------------------------------------------------------------------
(* Properties of the attempts of a step *)

\* C23: an attempt in which the tool raises ends inside execute_step: the
\* result is a failure with the fault's message, the step is failed, one
\* failed record is appended to the history, the attempt counts for the
\* retry bound, and the pass goes on to the retry or to the next step; at the
\* end of the pass every step has been processed
C23_FaultsAreCaptured ==
    /\ [][(pc = "in_step" /\ CurrentStep.tool = "raising") =>
            /\ Len(execution_history') = Len(execution_history) + 1
            /\ SubSeq(execution_history', 1, Len(execution_history)) = execution_history
            /\ LastRecord'.step_id = CurrentId
            /\ LastRecord'.status = "failed"
            /\ ~LastRecord'.result.success
            /\ LastRecord'.result.error = "fault"
            /\ steps'[CurrentIndex].status = "failed"
            /\ steps'[CurrentIndex].result = <<LastRecord'.result>>
            /\ retry_count' = retry_count + 1
            /\ IF retry_count + 1 <= max_retries
               THEN pc' = "retry" /\ pos' = pos
               ELSE pc' = "loop" /\ pos' = pos + 1 /\ results'[CurrentId] = LastRecord'.result]_vars
    /\ [](PassDone =>
            \A i \in 1..Len(steps) :
                /\ processed[steps[i].step_id] = 1
                /\ steps[i].status \in {"completed", "failed"}
                /\ (steps[i].tool = "raising" /\ DependenciesCompletedBefore(steps[i])) =>
                      /\ steps[i].status = "failed"
                      /\ attempts[steps[i].step_id] = 1 + max_retries)

\* C23 witness: the tool of step 0 raised in each of its three attempts, the
\* history has the three failed records, and step 1 was executed after them
\* and completed
C23_Witness ==
    /\ PassDone
    /\ Len(steps) = 2
    /\ steps[1].tool = "raising" /\ steps[1].status = "failed"
    /\ Len(RecordsOf(0)) = 3
    /\ \A k \in 1..3 : execution_history[k].result = FaultResult(0)
    /\ steps[2].status = "completed"
    /\ execution_history[4].step_id = 1

\* C27: a step that is completed or failed has been in progress in this
\* pass, and a step that is in progress has not been completed or failed
\* before in this pass, so that it has no result yet
C27_StatusTransitions ==
    (pc \in {"loop", "in_step", "retry", "pass_done"}) =>
        \A i \in 1..Len(steps) :
            /\ steps[i].status \in {"completed", "failed"} =>
                  attempts[steps[i].step_id] >= 1
            /\ steps[i].status = "in_progress" => steps[i].result = None

\* C28: the history records of the attempts of one step in one pass carry
\* the same parameter mapping, the resolved one (no failed attempt adds to the
\* context)
C28_AttemptsCarryEqualParameters ==
    \A k, l \in 1..Len(execution_history) :
        execution_history[k].step_id = execution_history[l].step_id =>
            execution_history[k].parameters = execution_history[l].parameters

\* the failed steps of the plan that use api_call
FailedApiCalls(plan) ==
    SelectSeq(plan, LAMBDA st : st.status = "failed" /\ st.tool = "api_call")

\* C24: adjust_plan returns its input unchanged when no step of it has
\* failed; otherwise it returns the input as a prefix followed by one
\* pending web_search step, without dependencies and with its position as
\* id, for each failed api_call step; the returned plan is longer exactly
\* when some failed step uses api_call, and equal to the input otherwise
C24_AdjustPlanRevision ==
    adjusted # None =>
        LET given == adjusted[1].given
            returned == adjusted[1].returned
        IN  /\ FailedSteps(given) = <<>> => returned = given
            /\ Len(returned) = Len(given) + Len(FailedApiCalls(given))
            /\ SubSeq(returned, 1, Len(given)) = given
            /\ \A k \in (Len(given) + 1)..Len(returned) :
                  /\ returned[k].step_id = k - 1
                  /\ returned[k].tool = "web_search"
                  /\ returned[k].dependencies = <<>>
                  /\ returned[k].status = "pending"
            /\ Len(returned) > Len(given) <=>
                  \E k \in 1..Len(given) :
                      given[k].status = "failed" /\ given[k].tool = "api_call"
            /\ Len(returned) <= Len(given) => returned = given

\* a plan with a failed api_call step and a failed step of another tool got
\* one alternative
C24_Witness ==
    /\ pc = "adjust_done"
    /\ adjusted # None
    /\ \E k \in 1..Len(adjusted[1].given) :
          /\ adjusted[1].given[k].status = "failed"
          /\ adjusted[1].given[k].tool = "calculate"
    /\ Len(FailedApiCalls(adjusted[1].given)) = 1
    /\ Len(adjusted[1].returned) = Len(adjusted[1].given) + 1

\* C26: two runs on one agent share no state but the orchestration context:
\* the history the first pass of every run ends with has the records of that
\* run's attempts and no record of an earlier run
C26_RunsShareOnlyContext ==
    (PassDone /\ exec_calls = 1) =>
        /\ Len(execution_history) = SumAttempts(StepIds(steps))
        /\ \A k \in 1..Len(execution_history) :
              execution_history[k].step_id \in StepIds(steps)

\* what the planner wrote into a step: its id, tool, raw parameters and
\* dependency list
Planned(st) ==
    [step_id |-> st.step_id, tool |-> st.tool, parameters |-> st.parameters,
     dependencies |-> st.dependencies]

\* C29: no step of execute_plan changes the length or the order of the plan
\* or the id, the tool, the raw parameters or the dependency list of a step
\* of it; adjust_plan leaves the list it was given as it was, also when the
\* list it returns is longer
C29_PlanNotMutated ==
    [][/\ Len(steps') = Len(steps)
       /\ \A i \in 1..Len(steps) : Planned(steps'[i]) = Planned(steps[i])
       /\ pc = "pass_done" => steps' = steps]_vars

\* a pass resolved the raw parameters of an api_call step and failed it, and
\* adjust_plan returned a longer list; the step still has its raw parameters
C29_Witness ==
    /\ pc = "adjust_done"
    /\ Len(steps) = ExecMaxSteps
    /\ Len(adjusted[1].returned) > Len(steps)
    /\ steps[Len(steps)].status = "failed"
    /\ steps[1].status = "completed"
    /\ steps[Len(steps)].parameters = ("content" :> StrVal(CalculationTemplate))
    /\ \E k \in 1..Len(execution_history) :
          /\ execution_history[k].step_id = Len(steps) - 1
          /\ execution_history[k].parameters # steps[Len(steps)].parameters

----------------------------------------------------------------------------
(* Properties of Planner.plan *)

\* C25: every call of Planner.plan returns a sequence of at least one step,
\* whatever the task
C25_PlanNeverEmpty ==
    planned # None =>
        /\ planned[1].outcome.exception = ""
        /\ Len(planned[1].outcome.steps) >= 1

\* C30: the steps of every sequence Planner.plan returns have the ids
\* 0, 1, ..., n-1 in the order of the sequence, also when sub-plans of a
\* multi-step task were appended
C30_PlanIdsDense ==
    (planned # None /\ planned[1].outcome.exception = "") =>
        \A i \in 1..Len(planned[1].outcome.steps) :
            planned[1].outcome.steps[i].step_id = i - 1

\* a multi-step task with a step of the pattern checks and two sub-plans,
\* one of them of two steps
C30_Witness ==
    /\ planned # None
    /\ planned[1].outcome.exception = ""
    /\ IsMultiStepTask(planned[1].task)
    /\ PatternSteps(planned[1].task) # <<>>
    /\ Len(planned[1].outcome.steps) >= Len(PatternSteps(planned[1].task)) + 3

\* the ids of the steps that stand before position i of the plan
EarlierIds(plan, i) == {plan[j].step_id : j \in 1..(i - 1)}

\* C31: in every sequence Planner.plan returns, the dependencies of a step
\* name only ids of steps that stand earlier in the sequence, each id once;
\* no step depends on itself or on an id the sequence does not have, and
\* _resolve_dependencies orders the sequence as it stands
C31_PlannedDependenciesPointBack ==
    (planned # None /\ planned[1].outcome.exception = "") =>
        LET plan == planned[1].outcome.steps
        IN  /\ \A i \in 1..Len(plan) :
                  \A k \in 1..Len(plan[i].dependencies) :
                      /\ plan[i].dependencies[k] \in EarlierIds(plan, i)
                      /\ \A l \in 1..(k - 1) :
                            plan[i].dependencies[l] # plan[i].dependencies[k]
            /\ ResolveDependencies(plan) = IdList(plan)

\* a multi-step task gave two steps of the pattern checks, which depend on
\* nothing, and a sub-plan whose step depends on both
C31_Witness ==
    /\ planned # None
    /\ planned[1].outcome.exception = ""
    /\ IsMultiStepTask(planned[1].task)
    /\ Len(PatternSteps(planned[1].task)) = 2
    /\ Len(planned[1].outcome.steps) >= 3
    /\ planned[1].outcome.steps[2].dependencies = <<>>
    /\ planned[1].outcome.steps[3].dependencies = <<0, 1>>

----------------------------------------------------------------------------
(* Properties of the running context of a pass *)

\* a step that completed in this pass contributed the key to the context
ContributedInPass(key) ==
    \E i \in 1..Len(steps) :
        /\ steps[i].status = "completed"
        /\ steps[i].result # None
        /\ \/ key = StepResultKey(steps[i].step_id)
           \/ \E f \in WellKnownFields \cap DOMAIN steps[i].result[1].fields :
                 key = WellKnownKey(f)

InPass == pc \in {"loop", "in_step", "retry", "pass_done"}

\* C32: every pass starts with an empty running context, which holds only
\* keys contributed by steps that completed in the pass; an attempt that
\* returns resolves its parameters against this context, so the reference of
\* the first step of a chain, which no step precedes, is resolved as against
\* an empty context, whatever the agent's context holds from the call's
\* context argument, from an earlier iteration or from an earlier run
C32_PassContextStartsEmpty ==
    /\ [][pc = "exec_start" => context' = EmptyMap]_vars
    /\ [](InPass => \A key \in DOMAIN context : ContributedInPass(key))
    /\ [][(pc = "in_step" /\ LastRecord'.result.error # "fault") =>
             LastRecord'.parameters =
                 ResolveParameters(CurrentStep.parameters, ContextView(context))]_vars
    /\ [](\A k \in 1..Len(execution_history) :
             execution_history[k].step_id = 0 =>
                 execution_history[k].parameters =
                     ResolveParameters(planner_output[1].parameters, EmptyMap))

\* the second run of an agent whose context has the note of the context
\* argument and the result of step 0 of the first run, 42: step 0, whose
\* parameter is "${step_0_result.result}", completed again, and the
\* parameter of its attempt was None
C32_Witness ==
    /\ pc = "pass_done"
    /\ runs = 2
    /\ Len(steps) = 1
    /\ "note" \in DOMAIN execution_context
    /\ StepResultKey(0) \in DOMAIN execution_context
    /\ execution_context[StepResultKey(0)].fields["result"] = "42"
    /\ steps[1].status = "completed"
    /\ steps[1].parameters = ("content" :> StrVal(StepZeroReference))
    /\ Len(execution_history) = 2
    /\ LastRecord.parameters = ("content" :> NoneVal)

----------------------------------------------------------------------------
(* Properties of a pass over a plan with a dependency cycle *)

\* the step with this id lies on a dependency cycle of the plan
OnCycle(plan, id) == id \in TransitiveDeps(plan, id)

\* the step with this id lies on a cycle or transitively depends on a step
\* that does
BehindCycle(plan, id) ==
    OnCycle(plan, id) \/ \E dep \in TransitiveDeps(plan, id) : OnCycle(plan, dep)

\* at the end of a pass every step on a cycle or behind one is failed with
\* the unsatisfied-dependency result, was never attempted and has no record
C33_CycleStepsSkipped ==
    PassDone =>
        \A i \in 1..Len(steps) :
            BehindCycle(steps, steps[i].step_id) =>
                /\ steps[i].status = "failed"
                /\ results[steps[i].step_id] = DependencyError
                /\ attempts[steps[i].step_id] = 0
                /\ RecordsOf(steps[i].step_id) = <<>>

\* at the end of a pass every step that is neither on a cycle nor behind one
\* and whose dependencies are completed steps of the plan was attempted
C33_OtherStepsExecuted ==
    PassDone =>
        \A i \in 1..Len(steps) :
            (~BehindCycle(steps, steps[i].step_id)
                 /\ ~HasUnsatisfiedDependency(steps[i], steps)) =>
                /\ attempts[steps[i].step_id] >= 1
                /\ ~IsDependencyError(results[steps[i].step_id])

\* C33: in a plan with unique ids, every step on a dependency cycle (a step
\* that depends on itself included) and every step that transitively depends
\* on such a step ends the pass failed with the unsatisfied-dependency
\* result, with no attempt and no history record, and the steps that are
\* neither on a cycle nor behind one are executed as in a plan without the
\* cycle: each of them whose dependencies completed is attempted
C33_CycleStepsFailOthersRun ==
    /\ C33_CycleStepsSkipped
    /\ C33_OtherStepsExecuted

----------------------------------------------------------------------------
(* Properties of a run whose iterations meet the same tool outcomes *)

----------------------------------------------------------------------------
(* Properties of the summary of a pass *)

\* C35: when execute_plan has returned for a plan with unique ids, every
\* step is completed or failed and none is pending or in progress; the
\* summary counts completed + failed = total_steps = the number of steps and
\* pending = 0; success holds exactly when failed = 0; and the results map,
\* which the summary hands back, has one entry for each step id and no other
C35_SummaryAccountsForEveryStep ==
    PassDone =>
        /\ \A i \in 1..Len(steps) : steps[i].status \in {"completed", "failed"}
        /\ summary[1].total_steps = Len(steps)
        /\ summary[1].completed + summary[1].failed = summary[1].total_steps
        /\ summary[1].completed = CountStatus(steps, "completed")
        /\ summary[1].failed = CountStatus(steps, "failed")
        /\ summary[1].pending = 0
        /\ summary[1].success <=> summary[1].failed = 0
        /\ summary[1].steps = steps
        /\ DOMAIN results = StepIds(steps)
        /\ summary[1].results = results

\* C35 witness: a pass over two steps has returned; one step completed, the
\* other was skipped for its dependency on itself, and the summary counts one
\* completed and one failed step and reports no success
C35_Witness ==
    /\ PassDone
    /\ Len(steps) = 2
    /\ steps[1].dependencies = <<0>> /\ steps[1].status = "failed"
    /\ attempts[0] = 0
    /\ steps[2].status = "completed"
    /\ summary[1].completed = 1 /\ summary[1].failed = 1
    /\ ~summary[1].success

----------------------------------------------------------------------------
(* Properties of the last attempt of a step *)

\* an execute_step call on the step with this id is under way
AttemptRunning(id) ==
    pc = "in_step" /\ pos <= Len(execution_order) /\ CurrentId = id

\* C36: for every step execute_step was called for, the status and the
\* result of the step are those of its latest attempt whenever no attempt is
\* under way: the step is completed exactly when its latest history record is
\* successful and carries that record's result; only the latest attempt can
\* have succeeded; and once the loop is past the step, results[step_id] is
\* the result of the last attempt too
C36_LastAttemptDecides ==
    OrderComputed =>
        \A i \in 1..Len(steps) :
            LET id == steps[i].step_id
                recs == RecordsOf(id)
                n == Len(recs)
            IN  n >= 1 =>
                  /\ \A k \in 1..n : recs[k].result.success => k = n
                  /\ ~AttemptRunning(id) =>
                        /\ steps[i].status = "completed" <=> recs[n].result.success
                        /\ steps[i].status = recs[n].status
                        /\ steps[i].result = Some(recs[n].result)
                  /\ AttemptRunning(id) =>
                        /\ steps[i].status = "in_progress"
                        /\ n = attempts[id] - 1
                        /\ ~recs[n].result.success
                  /\ StepFinished(id) =>
                        /\ id \in DOMAIN results
                        /\ results[id] = recs[n].result
                        /\ n = attempts[id]

\* C36 witness: a pass has returned in which the flaky step raised in its
\* first attempt, failed in its second and succeeded in its third; it is
\* completed and both its result and its results entry are the third result
C36_Witness ==
    /\ PassDone
    /\ Len(steps) = 2
    /\ steps[2].tool = "flaky"
    /\ Len(RecordsOf(1)) = 3
    /\ RecordsOf(1)[1].result = FaultResult(1)
    /\ RecordsOf(1)[2].result = FailureResult("flaky")
    /\ RecordsOf(1)[3].result = SuccessResult("flaky")
    /\ steps[2].status = "completed"
    /\ steps[2].result = Some(SuccessResult("flaky"))
    /\ results[1] = SuccessResult("flaky")

----------------------------------------------------------------------------
(* Properties of the order of a plan with a repeated dependency entry *)

\* how many entries of the dependency list of the step with this id name dep
TimesNamed(plan, id, dep) ==
    LET deps == plan[StepIndex(plan, id)].dependencies
    IN  Cardinality({k \in 1..Len(deps) : deps[k] = dep})

\* the steps whose list names a step of the plan twice, and the steps that
\* transitively depend on one of them
BehindRepeatedEntry(plan) ==
    {id \in StepIds(plan) :
        NamesTwice(plan, id) \/ \E dep \in TransitiveDeps(plan, id) : NamesTwice(plan, dep)}

====
